---- MODULE Spec2Model ----
(***************************************************************************)
(* Layered flag resolution of machship/flag: the CLI pass (parseOne), the  *)
(* environment pass (ParseEnv), the secret-directory pass (ParseSecretDir),*)
(* the config-file pass (ParseFile), their orchestration (FlagSet.Parse)   *)
(* and the @file indirection (expandAtFile).                               *)
(*                                                                         *)
(* Go strings are sequences of one-character strings, so that prefix       *)
(* tests, trimming, case folding and splitting are computed as the code    *)
(* computes them.                                                          *)
(***************************************************************************)
EXTENDS Integers, Sequences, FiniteSets, TLC

VARIABLES
  fs,          \* the FlagSet
  osArgs,      \* os.Args[1:]
  environ,     \* os.Environ()
  secretDir,   \* the entries of the directory at SecretPath: name -> [isDir, data]
  configFile,  \* the file at ConfigPath: [exists, data]
  err,         \* the error the last call returned
  outcome,     \* how the last call ended: "returned", "exit" (os.Exit(2)) or "panic"
  lastOp,      \* the last operation and the passes it ran, in order
  pending,     \* the change notifications the watcher has not handled yet
  fired,       \* the OnChange callbacks the watcher's last reload invoked
  calls,       \* the number of calls made on the FlagSet
  writes,      \* the number of writes made to the secret directory and the config file
  expIn,       \* the argument of a direct call of expandAtFile
  expOut       \* what that call returned: [s, err], err = "none" before the call

vars ==
  <<fs, osArgs, environ, secretDir, configFile, err, outcome, lastOp, pending, fired, calls,
    writes, expIn, expOut>>

(***************************************************************************)
(* Strings                                                                 *)
(***************************************************************************)
Lower == <<"a","b","c","d","e","f","g","h","i","j","k","l","m",
           "n","o","p","q","r","s","t","u","v","w","x","y","z">>

Upper == <<"A","B","C","D","E","F","G","H","I","J","K","L","M",
           "N","O","P","Q","R","S","T","U","V","W","X","Y","Z">>

Digits == <<"0","1","2","3","4","5","6","7","8","9">>

\* unicode.ToUpper on one character
ToUpperChar(c) ==
  IF \E i \in 1..26 : Lower[i] = c
    THEN Upper[CHOOSE i \in 1..26 : Lower[i] = c]
    ELSE c

\* unicode.ToLower on one character
ToLowerChar(c) ==
  IF \E i \in 1..26 : Upper[i] = c
    THEN Lower[CHOOSE i \in 1..26 : Upper[i] = c]
    ELSE c

\* strings.ToUpper
ToUpper(s) == [i \in 1..Len(s) |-> ToUpperChar(s[i])]

\* strings.ToLower
ToLower(s) == [i \in 1..Len(s) |-> ToLowerChar(s[i])]

\* strings.Replace(s, old, new, -1) / strings.ReplaceAll for one-character old and new
ReplaceAll(s, old, new) == [i \in 1..Len(s) |-> IF s[i] = old THEN new ELSE s[i]]

\* strings.HasPrefix
HasPrefix(s, p) == Len(s) >= Len(p) /\ SubSeq(s, 1, Len(p)) = p

\* strings.EqualFold on the ASCII letters of the model
EqualFold(s, t) == ToLower(s) = ToLower(t)

\* s[k:] with a 0-based Go index k
From(s, k) == SubSeq(s, k + 1, Len(s))

\* s[:k] with a 0-based Go index k
Upto(s, k) == SubSeq(s, 1, k)

\* strings.TrimRight(s, "\r\n"): removes EVERY trailing character that is in the cutset
RECURSIVE TrimRightCRLF(_)
TrimRightCRLF(s) ==
  IF Len(s) > 0 /\ s[Len(s)] \in {"\r", "\n"}
    THEN TrimRightCRLF(SubSeq(s, 1, Len(s) - 1))
    ELSE s

\* the 0-based index of the first character of s that is in cs, or -1 (strings.Index)
IndexAny(s, cs) ==
  IF \E i \in 1..Len(s) : s[i] \in cs
    THEN (CHOOSE i \in 1..Len(s) : s[i] \in cs /\ \A j \in 1..(i - 1) : s[j] \notin cs) - 1
    ELSE -1

(***************************************************************************)
(* The files that @file references can name (os.ReadFile).  A path outside *)
(* the domain does not exist.  FileNL ends in one line feed, FileNLNL in   *)
(* two, FileCRLF in a carriage return and a line feed.                     *)
(***************************************************************************)
PathNL == <<"/", "f">>
PathNLNL == <<"/", "g">>
PathCRLF == <<"/", "h">>
PathInt == <<"/", "i">>
PathMissing == <<"/", "m">>

Files ==
  PathNL :> <<"v", "\n">> @@
  PathNLNL :> <<"w", "\n", "\n">> @@
  PathCRLF :> <<"x", "\r", "\n">> @@
  PathInt :> <<"7">>

\* os.ReadFile
ReadFile(path) ==
  IF path \in DOMAIN Files
    THEN [data |-> Files[path], err |-> "nil"]
    ELSE [data |-> <<>>, err |-> "no such file"]

\* expandAtFile, with the @@ escape dropping both characters
ExpandAtFile_DropBoth(val) ==
  IF Len(val) = 0 \/ val[1] # "@" THEN [s |-> <<>>, err |-> "errNoAtExpansion"]
  ELSE IF HasPrefix(val, <<"@", "@">>) THEN [s |-> From(val, 2), err |-> "nil"]
  ELSE IF From(val, 1) = <<>> THEN [s |-> <<>>, err |-> "empty path"]
  ELSE LET r == ReadFile(From(val, 1))
       IN IF r.err # "nil" THEN [s |-> <<>>, err |-> r.err]
          ELSE [s |-> TrimRightCRLF(r.data), err |-> "nil"]

\* expandAtFile(val) (string, error): err is "nil", the sentinel errNoAtExpansion,
\* the empty-path error or the read error
expandAtFile(val) ==
  IF Len(val) = 0 \/ val[1] # "@" THEN [s |-> <<>>, err |-> "errNoAtExpansion"]
  ELSE IF HasPrefix(val, <<"@", "@">>) THEN [s |-> From(val, 1), err |-> "nil"]
  ELSE IF From(val, 1) = <<>> THEN [s |-> <<>>, err |-> "empty path"]
  ELSE LET r == ReadFile(From(val, 1))
       IN IF r.err # "nil" THEN [s |-> <<>>, err |-> r.err]
          ELSE [s |-> TrimRightCRLF(r.data), err |-> "nil"]

(***************************************************************************)
(* Values: a flag's cell holds a string, a bool or an int.                 *)
(***************************************************************************)
TrueStrings ==
  {<<"1">>, <<"t">>, <<"T">>, <<"t","r","u","e">>, <<"T","R","U","E">>, <<"T","r","u","e">>}

FalseStrings ==
  {<<"0">>, <<"f">>, <<"F">>, <<"f","a","l","s","e">>, <<"F","A","L","S","E">>,
   <<"F","a","l","s","e">>}

\* strconv.ParseBool: (value, error); the value is false on error
ParseBool(s) ==
  IF s \in TrueStrings THEN [v |-> TRUE, err |-> "nil"]
  ELSE IF s \in FalseStrings THEN [v |-> FALSE, err |-> "nil"]
  ELSE [v |-> FALSE, err |-> "invalid syntax"]

DigitVal(c) == (CHOOSE i \in 1..10 : Digits[i] = c) - 1

IsDigit(c) == \E i \in 1..10 : Digits[i] = c

RECURSIVE DecimalOf(_)
DecimalOf(s) ==
  IF Len(s) = 0 THEN 0
  ELSE 10 * DecimalOf(SubSeq(s, 1, Len(s) - 1)) + DigitVal(s[Len(s)])

\* strconv.ParseInt(s, 0, 64) on decimal literals of the model's lengths (an optional
\* sign, then digits with no leading zero, which base 0 would read as octal); any
\* other string is a syntax error, on which the value is 0
ParseInt(s) ==
  LET neg == Len(s) > 0 /\ s[1] = "-"
      body == IF Len(s) > 0 /\ s[1] \in {"-", "+"} THEN From(s, 1) ELSE s
      ok == /\ Len(body) > 0
            /\ \A i \in 1..Len(body) : IsDigit(body[i])
            /\ (Len(body) > 1 => body[1] # "0")
  IN IF ok THEN [v |-> IF neg THEN 0 - DecimalOf(body) ELSE DecimalOf(body), err |-> "nil"]
     ELSE [v |-> 0, err |-> "invalid syntax"]

RECURSIVE NatString(_)
NatString(n) ==
  IF n < 10 THEN <<Digits[n + 1]>>
  ELSE NatString(n \div 10) \o <<Digits[(n % 10) + 1]>>

\* Value.String() of the three kinds (fmt.Sprintf("%v", ...))
ValueString(kind, v) ==
  IF kind = "bool" THEN (IF v THEN <<"t","r","u","e">> ELSE <<"f","a","l","s","e">>)
  ELSE IF kind = "int" THEN (IF v < 0 THEN <<"-">> \o NatString(0 - v) ELSE NatString(v))
  ELSE v

\* Value.Set(s) of boolValue, intValue and stringValue: the parsed value is stored
\* into the cell whether or not the parse failed (*b = boolValue(v); return err)
ValueSet(kind, s) ==
  IF kind = "bool" THEN [v |-> ParseBool(s).v, err |-> ParseBool(s).err, stored |-> TRUE]
  ELSE IF kind = "int" THEN [v |-> ParseInt(s).v, err |-> ParseInt(s).err, stored |-> TRUE]
  ELSE [v |-> s, err |-> "nil", stored |-> TRUE]

(***************************************************************************)
(* The registry.  fs is the FlagSet: formal (name -> Flag, with the kind   *)
(* of its Value and DefValue), value (the bound variables), actual (the    *)
(* names set by some source), args, parsed, envPrefix, errorHandling, and  *)
(* source, the provenance that introspection reports for each flag.        *)
(***************************************************************************)
NoErr == [kind |-> "nil", name |-> <<>>, value |-> <<>>]

Error(kind, name, value) == [kind |-> kind, name |-> name, value |-> value]

\* var ErrHelp = errors.New("flag: help requested")
ErrHelp == Error("ErrHelp", <<>>, <<>>)

NameHelp == <<"h","e","l","p">>
NameH == <<"h">>

\* var DefaultConfigFlagname = "config"
DefaultConfigFlagname == <<"c","o","n","f","i","g">>

\* var DefaultSecretDirFlagname = "secret-dir"
DefaultSecretDirFlagname == <<"s","e","c","r","e","t","-","d","i","r">>

\* the test for a boolean flag with no flag taken as boolean
IsBoolFlag_Never(f, name) == FALSE

IsBoolFlag(f, name) == f.formal[name].Kind = "bool"

\* the error for a name that is no declared flag, with every name reported alike
NotDefined_NoHelp(kind, name) == Error(kind, name, <<>>)

\* `if name == "help" || name == "h" { f.usage(); return ErrHelp }; return
\* f.failf("... provided but not defined: %s", name)`
NotDefined(kind, name) ==
  IF name = NameHelp \/ name = NameH THEN ErrHelp ELSE Error(kind, name, <<>>)

\* the precedence test of the passes with every flag taken as not yet set
AlreadySet_Never(f, name) == FALSE

\* `_, set := f.actual[name]; if set { continue }` in ParseEnv, `if f.actual[name] != nil
\* { continue }` in ParseFile, and `if f.actual != nil && f.actual[target.Name] != nil
\* { continue }` in ParseSecretDir
AlreadySet(f, name) == name \in f.actual

\* a Value.Set that leaves a flag already recorded as it is
Commit_KeepFirst(f, name, v, src) ==
  IF name \in f.actual THEN f
  ELSE [f EXCEPT !.value[name] = v, !.actual = @ \cup {name}, !.source[name] = src]

\* f.actual[name] = flag, after a successful Value.Set that stored v
Commit(f, name, v, src) ==
  [f EXCEPT !.value[name] = v,
            !.actual = @ \cup {name},
            !.source[name] = src]

\* the cell after a Value.Set that returned an error (the flag is not recorded)
Dirty(f, name, r) == IF r.stored THEN [f EXCEPT !.value[name] = r.v] ELSE f

\* parseOne, from `if fv, ok := flag.Value.(boolFlag)` on, for a boolean flag
ParseOneBool(f, name, value, r) ==
  IF r.err # "nil"
    THEN [f |-> Dirty(f, name, r), seen |-> FALSE,
          err |-> Error("invalid boolean value", name, value)]
    ELSE [f |-> Commit(f, name, r.v, "cli"), seen |-> TRUE, err |-> NoErr]

\* parseOne, from `if err := flag.Value.Set(value)` on, for any other flag
ParseOneValue(f, name, value, r) ==
  IF r.err # "nil"
    THEN [f |-> Dirty(f, name, r), seen |-> FALSE, err |-> Error("invalid value", name, value)]
    ELSE [f |-> Commit(f, name, r.v, "cli"), seen |-> TRUE, err |-> NoErr]

\* parseOne, from `m := f.formal` on: f.args is already shifted past the token, name
\* and value are the parts of the token around its first '='
ParseOneFlag(f, name, hasEq, value) ==
  IF name \notin DOMAIN f.formal
    THEN [f |-> f, seen |-> FALSE, err |-> NotDefined("flag provided but not defined", name)]
  ELSE IF IsBoolFlag(f, name)
    THEN IF hasEq
           THEN ParseOneBool(f, name, value, ValueSet("bool", value))
           ELSE ParseOneBool(f, name, <<"t","r","u","e">>, ValueSet("bool", <<"t","r","u","e">>))
  \* It must have a value, which might be the next argument.
  ELSE IF ~hasEq /\ Len(f.args) > 0
    THEN ParseOneValue([f EXCEPT !.args = Tail(@)], name, f.args[1],
                       ValueSet(f.formal[name].Kind, f.args[1]))
  ELSE IF ~hasEq
    THEN [f |-> f, seen |-> FALSE, err |-> Error("flag needs an argument", name, <<>>)]
  ELSE ParseOneValue(f, name, value, ValueSet(f.formal[name].Kind, value))

\* parseOne, from `name := s[numMinuses:]` on; eq is the index in name[1:] of the
\* first '=' (for i := 1; i < len(name); i++: an '=' cannot be first)
ParseOneName(f, s, name, eq) ==
  IF Len(name) = 0 \/ name[1] = "-" \/ name[1] = "="
    THEN [f |-> f, seen |-> FALSE, err |-> Error("bad flag syntax", <<>>, s)]
  ELSE IF HasPrefix(name, <<"t","e","s","t",".">>)
    THEN [f |-> f, seen |-> FALSE, err |-> NoErr]
  ELSE IF eq >= 0
    THEN ParseOneFlag([f EXCEPT !.args = Tail(@)], Upto(name, eq + 1), TRUE, From(name, eq + 2))
  ELSE ParseOneFlag([f EXCEPT !.args = Tail(@)], name, FALSE, <<>>)

\* parseOne, for the token s = f.args[0] and its number of leading minuses
ParseOneToken(f, s, numMinuses) ==
  ParseOneName(f, s, From(s, numMinuses), IndexAny(From(s, numMinuses + 1), {"="}))

\* parseOne with `--` skipped as if it were a flag that was seen
parseOne_SkipTerminator(f) ==
  IF Len(f.args) = 0 THEN [f |-> f, seen |-> FALSE, err |-> NoErr]
  ELSE IF Len(f.args[1]) = 0 \/ f.args[1][1] # "-" \/ Len(f.args[1]) = 1
    THEN [f |-> f, seen |-> FALSE, err |-> NoErr]
  ELSE IF f.args[1][2] = "-" /\ Len(f.args[1]) = 2
    THEN [f |-> [f EXCEPT !.args = Tail(@)], seen |-> TRUE, err |-> NoErr]
  ELSE ParseOneToken(f, f.args[1], IF f.args[1][2] = "-" THEN 2 ELSE 1)

\* parseOne() (bool, error): parses one flag from the head of f.args
parseOne(f) ==
  IF Len(f.args) = 0 THEN [f |-> f, seen |-> FALSE, err |-> NoErr]
  ELSE IF Len(f.args[1]) = 0 \/ f.args[1][1] # "-" \/ Len(f.args[1]) = 1
    THEN [f |-> f, seen |-> FALSE, err |-> NoErr]
  ELSE IF f.args[1][2] = "-" /\ Len(f.args[1]) = 2
    THEN [f |-> [f EXCEPT !.args = Tail(@)], seen |-> FALSE, err |-> NoErr]
  ELSE ParseOneToken(f, f.args[1], IF f.args[1][2] = "-" THEN 2 ELSE 1)

\* the loop of FlagSet.Parse over parseOne: for { seen, err := f.parseOne() ... }
RECURSIVE ParseLoop(_)
ParseLoop(r) == IF r.seen THEN ParseLoop(parseOne(r.f)) ELSE [f |-> r.f, err |-> r.err]

ParseArgs(f) == ParseLoop(parseOne(f))

(***************************************************************************)
(* Environment pass                                                        *)
(***************************************************************************)
\* env := make(map[string]string) filled from the "KEY=value" entries of environ;
\* entries whose '=' is missing or first are skipped, a later entry overwrites
EnvKeys(env) ==
  {Upto(env[i], IndexAny(env[i], {"="})) : i \in {k \in 1..Len(env) : IndexAny(env[k], {"="}) >= 1}}

EnvValue(env, key) ==
  LET hits == {k \in 1..Len(env) :
                 IndexAny(env[k], {"="}) >= 1 /\ Upto(env[k], IndexAny(env[k], {"="})) = key}
      last == CHOOSE k \in hits : \A j \in hits : j <= k
  IN From(env[last], IndexAny(env[last], {"="}) + 1)

\* envKey: strings.ToUpper(flag.Name), the prefix and "_" put before it, "-" -> "_"
EnvKey(f, name) ==
  LET up == ToUpper(name)
      pre == IF f.envPrefix # <<>> THEN f.envPrefix \o <<"_">> \o up ELSE up
  IN ReplaceAll(pre, "-", "_")

\* the body of ParseEnv's loop for one flag: [f, err]
ParseEnvFlag(f, env, name) ==
  IF AlreadySet(f, name) THEN [f |-> f, err |-> NoErr]
  ELSE IF EnvKey(f, name) \notin EnvKeys(env) THEN [f |-> f, err |-> NoErr]
  ELSE
  LET value == EnvValue(env, EnvKey(f, name))
      hasValue == Len(value) > 0
      x == expandAtFile(value)
      expanded == IF x.err = "nil" THEN x.s ELSE value
  IN
  IF IsBoolFlag(f, name)
    THEN IF hasValue
           THEN IF x.err \notin {"nil", "errNoAtExpansion"}
                  THEN [f |-> f, err |-> Error("invalid value", name, value)]
                ELSE LET r == ValueSet("bool", expanded)
                     IN IF r.err # "nil"
                          THEN [f |-> Dirty(f, name, r),
                                err |-> Error("invalid boolean value", name, expanded)]
                          ELSE [f |-> Commit(f, name, r.v, "env"), err |-> NoErr]
           ELSE [f |-> Commit(f, name, ValueSet("bool", <<"t","r","u","e">>).v, "env"),
                 err |-> NoErr]
  ELSE IF x.err \notin {"nil", "errNoAtExpansion"}
    THEN [f |-> f, err |-> Error("invalid value", name, value)]
  ELSE LET r == ValueSet(f.formal[name].Kind, expanded)
       IN IF r.err # "nil"
            THEN [f |-> Dirty(f, name, r), err |-> Error("invalid value", name, expanded)]
            ELSE [f |-> Commit(f, name, r.v, "env"), err |-> NoErr]

\* for _, flag := range m { ... } in the visiting order `order`; the first error returns
RECURSIVE ParseEnvIn(_, _, _)
ParseEnvIn(f, env, order) ==
  IF Len(order) = 0 THEN [f |-> f, err |-> NoErr]
  ELSE LET r == ParseEnvFlag(f, env, Head(order))
       IN IF r.err # NoErr THEN r ELSE ParseEnvIn(r.f, env, Tail(order))

\* the sequences that list every element of S once
Orders(S) ==
  {o \in [1..Cardinality(S) -> S] : \A i, j \in 1..Cardinality(S) : i # j => o[i] # o[j]}

\* Go ranges over the map f.formal in an unspecified order.  A flag that is already in
\* actual or has no environment variable is passed over with `continue`, so the orders
\* drawn are those of the flags the loop acts on.
EnvOrders(f, env) ==
  Orders({name \in DOMAIN f.formal : name \notin f.actual /\ EnvKey(f, name) \in EnvKeys(env)})

(***************************************************************************)
(* Config-file pass                                                        *)
(***************************************************************************)
\* the path of the config file of the model and of its secret directory
ConfigPath == <<"/", "c">>
SecretPath == <<"/", "s">>

\* bufio.ScanLines: the lines of data, split at "\n", one trailing "\r" dropped from
\* each; a final line without terminator is a line, an empty remainder is not
RECURSIVE ScanLines(_)
ScanLines(data) ==
  IF Len(data) = 0 THEN <<>>
  ELSE LET nl == IndexAny(data, {"\n"})
           raw == IF nl >= 0 THEN Upto(data, nl) ELSE data
           line == IF Len(raw) > 0 /\ raw[Len(raw)] = "\r" THEN Upto(raw, Len(raw) - 1) ELSE raw
       IN IF nl >= 0 THEN <<line>> \o ScanLines(From(data, nl + 1)) ELSE <<line>>

\* os.Open(path) and the read of its bytes: the config file, or one of Files
OpenFile(cfg, path) ==
  IF path = ConfigPath /\ cfg.exists
    THEN [data |-> cfg.data, repeat |-> cfg.repeat, err |-> "nil"]
    ELSE [data |-> ReadFile(path).data, repeat |-> 0, err |-> ReadFile(path).err]

\* the body of ParseFile's scanner loop for one line: [f, err]
ParseFileLine(f, line) ==
  IF Len(line) = 0 THEN [f |-> f, err |-> NoErr]
  ELSE IF line[1] = "#" THEN [f |-> f, err |-> NoErr]
  ELSE
  LET cut == IndexAny(line, {"=", " "})
      hasValue == cut >= 0
      name == IF hasValue THEN Upto(line, cut) ELSE line
      value == IF hasValue THEN From(line, cut + 1) ELSE <<>>
      x == expandAtFile(value)
      expanded == IF x.err = "nil" THEN x.s ELSE value
  IN
  IF AlreadySet(f, name) THEN [f |-> f, err |-> NoErr]
  ELSE IF name \notin DOMAIN f.formal
    THEN [f |-> f, err |-> NotDefined("configuration variable provided but not defined", name)]
  ELSE IF IsBoolFlag(f, name)
    THEN IF hasValue
           THEN IF x.err \notin {"nil", "errNoAtExpansion"}
                  THEN [f |-> f, err |-> Error("invalid boolean value", name, value)]
                ELSE LET r == ValueSet("bool", expanded)
                     IN IF r.err # "nil"
                          THEN [f |-> Dirty(f, name, r),
                                err |-> Error("invalid boolean value", name, expanded)]
                          ELSE [f |-> Commit(f, name, r.v, "config"), err |-> NoErr]
           ELSE [f |-> Commit(f, name, ValueSet("bool", <<"t","r","u","e">>).v, "config"),
                 err |-> NoErr]
  ELSE IF x.err \notin {"nil", "errNoAtExpansion"}
    THEN [f |-> f, err |-> Error("invalid value", name, value)]
  ELSE LET r == ValueSet(f.formal[name].Kind, expanded)
       IN IF r.err # "nil"
            THEN [f |-> Dirty(f, name, r), err |-> Error("invalid value", name, expanded)]
            ELSE [f |-> Commit(f, name, r.v, "config"), err |-> NoErr]

\* for scanner.Scan() { ... }: the lines in file order; the first error returns
RECURSIVE ParseFileLines(_, _)
ParseFileLines(f, lines) ==
  IF Len(lines) = 0 THEN [f |-> f, err |-> NoErr]
  ELSE LET r == ParseFileLine(f, Head(lines))
       IN IF r.err # NoErr THEN r ELSE ParseFileLines(r.f, Tail(lines))

\* bufio.MaxScanTokenSize: the scanner gives up on a line that fills its buffer
MaxScanTokenSize == 65536

\* the end of the scan with the error of scanner.Err() dropped
ParseFileRun_NoScanErr(r, repeat) == r

\* the end of the scan, after the lines r has processed: the file ends with a run of
\* `repeat` letters 'a' on a line of its own (strings.Repeat("a", n)); a run that
\* fills the buffer ends the loop and `if err := scanner.Err(); err != nil { return
\* err }` returns bufio.ErrTooLong, a shorter run is one more line
ParseFileRun(r, repeat) ==
  IF r.err # NoErr \/ repeat = 0 THEN r
  ELSE IF repeat >= MaxScanTokenSize
    THEN [f |-> r.f, err |-> Error("bufio.Scanner: token too long", <<>>, <<>>)]
  ELSE ParseFileLine(r.f, [i \in 1..repeat |-> "a"])

\* ParseFile(path) error
ParseFile(f, cfg, path) ==
  IF OpenFile(cfg, path).err # "nil" THEN [f |-> f, err |-> Error("open", <<>>, path)]
  ELSE ParseFileRun(ParseFileLines(f, ScanLines(OpenFile(cfg, path).data)),
                    OpenFile(cfg, path).repeat)

(***************************************************************************)
(* Secret-directory pass                                                   *)
(***************************************************************************)
\* the characters of the model in byte order
ByteOrder ==
  <<"\n", "\r", " ", "#", "-", ".", "/">> \o Digits \o <<"=", "@">> \o Upper \o <<"_">> \o Lower

Byte(c) == CHOOSE i \in 1..Len(ByteOrder) : ByteOrder[i] = c

\* s < t as Go compares strings
RECURSIVE StrLess(_, _)
StrLess(s, t) ==
  IF Len(t) = 0 THEN FALSE
  ELSE IF Len(s) = 0 THEN TRUE
  ELSE IF s[1] # t[1] THEN Byte(s[1]) < Byte(t[1])
  ELSE StrLess(Tail(s), Tail(t))

\* os.ReadDir returns the entries sorted by filename
RECURSIVE SortedNames(_)
SortedNames(S) ==
  IF S = {} THEN <<>>
  ELSE LET m == CHOOSE x \in S : \A y \in S \ {x} : StrLess(x, y)
       IN <<m>> \o SortedNames(S \ {m})

Candidates_Swapped(name) == <<ReplaceAll(ToLower(name), "_", "-"), ToLower(name)>>

\* candidates := []string{lower, strings.ReplaceAll(lower, "_", "-")}
Candidates(name) == <<ToLower(name), ReplaceAll(ToLower(name), "_", "-")>>

\* the body of ParseSecretDir's loop for one directory entry: [f, err]
ParseSecretEntry(f, dir, name) ==
  IF dir[name].isDir THEN [f |-> f, err |-> NoErr]
  ELSE
  LET candidates == Candidates(name)
      found == {i \in 1..2 : candidates[i] \in DOMAIN f.formal}
      target == candidates[CHOOSE i \in found : \A j \in found : i <= j]
      val == TrimRightCRLF(dir[name].data)
      x == expandAtFile(val)
      expanded == IF x.err = "nil" THEN x.s ELSE val
  IN
  IF found = {} THEN [f |-> f, err |-> NoErr]
  ELSE IF AlreadySet(f, target) THEN [f |-> f, err |-> NoErr]
  ELSE IF IsBoolFlag(f, target) /\ (val = <<>> \/ EqualFold(val, <<"t","r","u","e">>))
    THEN [f |-> Commit(f, target, ValueSet("bool", <<"t","r","u","e">>).v, "secret"),
          err |-> NoErr]
  ELSE LET r == ValueSet(f.formal[target].Kind, expanded)
       IN IF r.err # "nil"
            THEN [f |-> Dirty(f, target, r), err |-> Error("secret file invalid", target, name)]
            ELSE [f |-> Commit(f, target, r.v, "secret"), err |-> NoErr]

RECURSIVE ParseSecretEntries(_, _, _)
ParseSecretEntries(f, dir, names) ==
  IF Len(names) = 0 THEN [f |-> f, err |-> NoErr]
  ELSE LET r == ParseSecretEntry(f, dir, Head(names))
       IN IF r.err # NoErr THEN r ELSE ParseSecretEntries(r.f, dir, Tail(names))

\* ParseSecretDir with the ledger cleared before the entries are read
ParseSecretDir_Reset(f, sd, path) ==
  IF path # SecretPath THEN [f |-> f, err |-> Error("readdir", <<>>, path)]
  ELSE ParseSecretEntries([f EXCEPT !.actual = {}], sd, SortedNames(DOMAIN sd))

\* ParseSecretDir(dir) error: sd is the directory at SecretPath, no other path exists
ParseSecretDir(f, sd, path) ==
  IF path # SecretPath THEN [f |-> f, err |-> Error("readdir", <<>>, path)]
  ELSE ParseSecretEntries(f, sd, SortedNames(DOMAIN sd))

(***************************************************************************)
(* Orchestration                                                           *)
(***************************************************************************)
\* switch f.errorHandling { case ContinueOnError: return err; case ExitOnError:
\* os.Exit(2); case PanicOnError: panic(err) }
Handled(f) ==
  IF f.errorHandling = "ContinueOnError" THEN "returned"
  ELSE IF f.errorHandling = "ExitOnError" THEN "exit"
  ELSE "panic"

\* cFile: the String() of the config flag's value, "" when the flag is not declared
ConfigFileOf(f) ==
  IF DefaultConfigFlagname \in DOMAIN f.formal
    THEN ValueString(f.formal[DefaultConfigFlagname].Kind, f.value[DefaultConfigFlagname])
    ELSE <<>>

\* FlagSet.Parse after the config-file pass returned p
ParseAfterFile(f, p) ==
  IF p.err # NoErr
    THEN [f |-> p.f, err |-> p.err, outcome |-> Handled(f), passes |-> <<"cli", "env", "config">>]
    ELSE [f |-> p.f, err |-> NoErr, outcome |-> "returned", passes |-> <<"cli", "env", "config">>]

\* FlagSet.Parse after ParseEnv returned e: ParseFile(cFile) if cFile # ""
ParseAfterEnv(f, e, cfg) ==
  IF e.err # NoErr
    THEN [f |-> e.f, err |-> e.err, outcome |-> Handled(f), passes |-> <<"cli", "env">>]
  ELSE IF ConfigFileOf(e.f) = <<>>
    THEN [f |-> e.f, err |-> NoErr, outcome |-> "returned", passes |-> <<"cli", "env">>]
  ELSE ParseAfterFile(f, ParseFile(e.f, cfg, ConfigFileOf(e.f)))

\* FlagSet.Parse going on to ParseEnv whatever the CLI loop returned
ParseAfterArgs_Continue(f, c, env, order, cfg) ==
  ParseAfterEnv(f, ParseEnvIn(c.f, env, order), cfg)

\* FlagSet.Parse after the CLI loop returned c: ParseEnv(os.Environ())
ParseAfterArgs(f, c, env, order, cfg) ==
  IF c.err # NoErr
    THEN [f |-> c.f, err |-> c.err, outcome |-> Handled(f), passes |-> <<"cli">>]
    ELSE ParseAfterEnv(f, ParseEnvIn(c.f, env, order), cfg)

\* FlagSet.Parse(arguments): the CLI loop, then ParseEnv(os.Environ()), then
\* ParseFile(cFile) if cFile # "".  [f, err, outcome, passes]
Parse(f, arguments, env, order, cfg) ==
  ParseAfterArgs(f, ParseArgs([f EXCEPT !.parsed = TRUE, !.args = arguments]), env, order, cfg)

\* FlagSet.Set(name, value) error
Set(f, name, value) ==
  IF name \notin DOMAIN f.formal THEN [f |-> f, err |-> Error("no such flag", name, <<>>)]
  ELSE LET r == ValueSet(f.formal[name].Kind, value)
       IN IF r.err # "nil"
            THEN [f |-> Dirty(f, name, r), err |-> Error("invalid value", name, value)]
            ELSE [f |-> Commit(f, name, r.v, "set"), err |-> NoErr]

(***************************************************************************)
(* Change watcher: on a change notification it re-invokes the pass of the  *)
(* changed source and invokes the OnChange callback of every flag whose    *)
(* String() differs from before the pass.                                  *)
(***************************************************************************)
Changed(f, g) ==
  {<<name, ValueString(g.formal[name].Kind, g.value[name])>> :
     name \in {n \in DOMAIN f.formal : f.value[n] # g.value[n]}}

Reload(f, kind, sd, cfg) ==
  IF kind = "secret" THEN ParseSecretDir(f, sd, SecretPath)
  ELSE ParseFile(f, cfg, ConfigPath)

(***************************************************************************)
(* Sensitive flags and introspection: MarkSensitive(name) marks a declared *)
(* flag, Introspect() reports every declared flag with its value, default, *)
(* whether it was set and the source that set it.                          *)
(***************************************************************************)
\* the fixed masking token
Mask == <<"*", "*", "*", "*", "*", "*">>

\* FlagSet.MarkSensitive(name)
MarkSensitive(f, name) ==
  IF name \in DOMAIN f.formal THEN [f EXCEPT !.sensitive = @ \cup {name}] ELSE f

\* the report of one flag
FlagMeta(f, name, shown) ==
  [Name |-> name,
   Value |-> IF shown THEN ValueString(f.formal[name].Kind, f.value[name]) ELSE Mask,
   Default |-> IF shown THEN f.formal[name].DefValue ELSE Mask,
   Set |-> name \in f.actual,
   Source |-> IF name \in f.actual THEN f.source[name] ELSE "default",
   Sensitive |-> name \in f.sensitive]

Introspect_Unmasked(f) == [name \in DOMAIN f.formal |-> FlagMeta(f, name, TRUE)]

\* FlagSet.Introspect(): one report per declared flag
Introspect(f) == [name \in DOMAIN f.formal |-> FlagMeta(f, name, name \notin f.sensitive)]

(***************************************************************************)
(* Inputs                                                                  *)
(***************************************************************************)
MaxCalls == 2
MaxWrites == 1

NameU == <<"u">>
NameN == <<"n">>
NameB == <<"b">>
NameDP == <<"d", "-", "p">>

Opt(name) == <<"-">> \o name
OptEq(name, value) == <<"-">> \o name \o <<"=">> \o value
At(path) == <<"@">> \o path
KV(key, sep, value) == key \o <<sep>> \o value

Flag(kind, def) == [Kind |-> kind, DefValue |-> ValueString(kind, def), Default |-> def]

\* the declarations: StringVar(u, "d"), StringVar(d-p, ""), BoolVar(b, false), IntVar(n, 8)
BaseFlags ==
  NameU :> Flag("string", <<"d">>) @@ NameDP :> Flag("string", <<>>) @@
  NameB :> Flag("bool", FALSE) @@ NameN :> Flag("int", 8)

\* ... and String(DefaultSecretDirFlagname, sd), String(DefaultConfigFlagname, cf)
CtlFlags(sd, cf) ==
  BaseFlags @@ DefaultSecretDirFlagname :> Flag("string", sd) @@
  DefaultConfigFlagname :> Flag("string", cf)

\* NewFlagSet(name, errorHandling) followed by the Var declarations of `formal`
NewFlagSet(formal, errorHandling) ==
  [formal |-> formal,
   value |-> [n \in DOMAIN formal |-> formal[n].Default],
   actual |-> {},
   source |-> [n \in DOMAIN formal |-> "default"],
   args |-> <<>>,
   parsed |-> FALSE,
   envPrefix |-> <<>>,
   errorHandling |-> errorHandling,
   deferredValidations |-> <<>>,
   sensitive |-> {}]

File(data) == [isDir |-> FALSE, data |-> data]
NoDir == [n \in {} |-> File(<<>>)]
Present(data) == [exists |-> TRUE, data |-> data, repeat |-> 0]
Absent == [exists |-> FALSE, data |-> <<>>, repeat |-> 0]

\* the length of the line of TestParseFileScannerError
BigLine == 70000

\* a config file whose content is data, made of whole lines, and then n letters 'a'
Long(data, n) == [exists |-> TRUE, data |-> data, repeat |-> n]

ArgsCtl == <<Opt(DefaultSecretDirFlagname), SecretPath, Opt(DefaultConfigFlagname), ConfigPath>>

EnvU == KV(<<"U">>, "=", <<"e">>)
EnvCtl ==
  <<KV(ToUpper(DefaultConfigFlagname), "=", ConfigPath),
    KV(<<"S","E","C","R","E","T","_","D","I","R">>, "=", SecretPath)>>

SecretU == NameU :> File(<<"s", "\n">>)
ConfigU == Present(KV(NameU, " ", <<"f", "\n">>))

\* scenarios about precedence and gating: each source supplies u or not, the
\* controlling flags are declared or not and come from the CLI, the environment or
\* their defaults
FamilyA ==
  [formal : {BaseFlags, CtlFlags(<<>>, <<>>), CtlFlags(SecretPath, ConfigPath)},
   eh : {"ContinueOnError"},
   args : {<<>>, <<Opt(NameU), <<"c">>>>},
   env : {<<>>, <<EnvU>>, <<EnvU>> \o EnvCtl},
   sd : {NoDir, SecretU},
   cfg : {Absent, ConfigU}]
  \cup
  [formal : {CtlFlags(<<>>, <<>>), CtlFlags(SecretPath, ConfigPath)},
   eh : {"ContinueOnError"},
   args : {ArgsCtl, <<OptEq(NameU, <<"c">>)>> \o ArgsCtl},
   env : {<<>>, <<EnvU>>, <<EnvU>> \o EnvCtl},
   sd : {NoDir, SecretU},
   cfg : {Absent, ConfigU}]

\* scenarios about the command line: @file values, unparseable values, unknown
\* flags, booleans, under each error-handling policy
FamilyCli ==
  [formal : {CtlFlags(SecretPath, ConfigPath)},
   eh : {"ContinueOnError", "ExitOnError", "PanicOnError"},
   args : {<<Opt(NameU), At(PathNL)>>,
           <<OptEq(NameU, <<"@", "@", "x">>)>>,
           <<Opt(NameU), At(PathMissing)>>,
           <<Opt(NameU), <<"@">>>>,
           <<Opt(NameN), <<"5">>>>,
           <<Opt(NameB), Opt(NameN), <<"x">>>>,
           <<Opt(NameDP), <<"p">>, Opt(<<"z">>)>>,
           <<OptEq(NameB, <<"m">>)>>,
           <<Opt(NameB), <<"-", "-">>, Opt(NameU), <<"c">>>>,
           <<Opt(NameB), <<"t", "r", "u", "e">>, Opt(NameU), <<"c">>>>,
           <<OptEq(NameB, <<"0">>), <<"-", "-">>, <<"-", "-">>, OptEq(NameU, <<"c">>)>>,
           <<<<"-", "-">>, Opt(NameN), <<"5">>>>,
           <<<<"-", "-">> \o NameHelp>>,
           <<Opt(NameU), <<"a">>, OptEq(NameU, <<"b">>)>>,
           <<Opt(NameN), <<"5">>, Opt(NameB), Opt(NameU), <<"a">>, OptEq(NameN, <<"6">>)>>},
   env : {<<EnvU>>},
   sd : {SecretU},
   cfg : {ConfigU}]

\* scenarios about the environment
FamilyEnv ==
  [formal : {CtlFlags(SecretPath, ConfigPath)},
   eh : {"ContinueOnError", "ExitOnError"},
   args : {<<>>, <<Opt(NameN), <<"5">>>>},
   env : {<<KV(<<"U">>, "=", At(PathNLNL))>>,
          <<KV(<<"U">>, "=", At(PathMissing))>>,
          <<KV(<<"U">>, "=", <<"@">>)>>,
          <<KV(<<"U">>, "=", <<"@", "@", "e">>)>>,
          <<KV(<<"N">>, "=", <<"x">>)>>,
          <<KV(<<"N">>, "=", At(PathInt)), KV(<<"B">>, "=", <<>>)>>,
          <<KV(<<"Z">>, "=", <<"1">>), KV(<<"B">>, "=", <<"m">>)>>,
          <<KV(ToUpper(NameHelp), "=", <<"1">>), KV(<<"B">>, "=", <<"T">>)>>,
          <<KV(<<"N">>, "=", <<"x">>), EnvU, KV(<<"D", "_", "P">>, "=", <<"q">>)>>},
   sd : {SecretU},
   cfg : {Present(KV(NameU, " ", <<"f", "\n">>) \o KV(NameN, "=", <<"3", "\n">>))}]

\* scenarios about the secret directory
FamilySecret ==
  [formal : {CtlFlags(SecretPath, ConfigPath)},
   eh : {"ContinueOnError"},
   args : {<<>>, <<Opt(NameN), <<"5">>>>},
   env : {<<>>},
   sd : {NameU :> File(At(PathCRLF)),
         NameU :> File(At(PathMissing) \o <<"\n">>),
         NameU :> File(<<"@">>),
         NameU :> File(<<"s", "\r", "\n", "\n">>),
         NameN :> File(<<"x">>),
         <<"U">> :> File(<<"@", "@", "s", "\n">>) @@ NameB :> File(<<>>),
         NameB :> File(<<"t", "R", "u", "E", "\n">>),
         NameB :> File(<<"m">>),
         NameB :> File(<<"F">>),
         <<"D", "_", "P">> :> File(<<"p", "\n">>) @@ NameDP :> File(<<"q">>) @@
           NameU :> [isDir |-> TRUE, data |-> <<>>]},
   cfg : {Present(<<>>)}]

\* scenarios about the config file
FamilyConfig ==
  [formal : {CtlFlags(SecretPath, ConfigPath)},
   eh : {"ContinueOnError"},
   args : {<<>>, <<Opt(NameN), <<"5">>>>},
   env : {<<>>},
   sd : {NoDir},
   cfg : {Present(KV(NameU, " ", At(PathNL)) \o <<"\n">>),
          Present(KV(NameU, "=", At(PathMissing)) \o <<"\n">>),
          Present(KV(NameU, " ", <<"@">>)),
          Present(KV(NameN, " ", <<"x", "\n">>) \o KV(NameU, " ", <<"f", "\n">>)),
          Present(KV(NameU, "=", <<"@", "@", "f", "\r", "\n">>) \o NameB \o <<"\n">>),
          Present(<<"#", "c", "\n", "\n">> \o KV(NameU, " ", <<"f">>)),
          Present(KV(<<"z">>, " ", <<"1", "\n">>)),
          Present(KV(NameB, "=", <<"0", "\n">>) \o NameHelp \o <<"\n">>),
          Present(KV(NameB, " ", <<"m", "\n">>)),
          Present(<<"\n", "#">> \o KV(NameU, "=", <<"x", "\n", "\r", "\n">>)),
          Present(KV(NameU, "=", <<"k", " ", "v", "\n">>) \o KV(NameN, " ", <<"4", "\n">>)
                    \o NameB),
          Present(KV(NameN, " ", <<"3", "\n">>) \o KV(NameN, "=", <<"x", "\n">>) \o
                    KV(NameU, " ", <<"f", "\n">>) \o KV(NameU, " ", <<"g", "\n">>)),
          Long(<<>>, BigLine),
          Long(KV(NameU, " ", <<"f", "\n">>), BigLine),
          Long(KV(NameU, " ", <<"f", "\n">>), 1)}]

\* scenarios about the names of the secret files: d_p and d-p are both declared
NameD_P == <<"d", "_", "p">>

FamilySecretNames ==
  [formal : {CtlFlags(SecretPath, ConfigPath) @@ NameD_P :> Flag("string", <<>>)},
   eh : {"ContinueOnError"},
   args : {<<>>, <<Opt(NameN), <<"5">>>>},
   env : {<<>>},
   sd : {<<"D", "_", "P">> :> File(<<"p", "\n">>) @@ NameDP :> File(<<"q">>),
         <<"z">> :> File(<<"x">>) @@ <<"U">> :> File(<<"s", "\n">>) @@
           NameB :> [isDir |-> TRUE, data |-> <<>>],
         <<"D", "-", "P">> :> File(<<"r">>) @@ NameN :> File(<<"x">>)},
   cfg : {Present(<<>>)}]

Scenarios ==
  FamilyA \cup FamilyCli \cup FamilyEnv \cup FamilySecret \cup FamilyConfig \cup
  FamilySecretNames

\* the process before its first call: the flags declared, nothing parsed
Start(sc) ==
  /\ fs = NewFlagSet(sc.formal, sc.eh)
  /\ osArgs = sc.args
  /\ environ = sc.env
  /\ secretDir = sc.sd
  /\ configFile = sc.cfg
  /\ err = NoErr
  /\ outcome = "none"
  /\ lastOp = [op |-> "none", passes |-> <<>>]
  /\ pending = {}
  /\ fired = {}
  /\ calls = 0
  /\ writes = 0

Init ==
  /\ \E sc \in Scenarios : Start(sc)
  /\ expIn = <<>>
  /\ expOut = [s |-> <<>>, err |-> "none"]

\* the strings of at most MaxLen characters over the characters that matter to
\* expandAtFile: the marker, the characters of the paths, a letter, the terminators
MaxLen == 3

ExpandChars == {"@", "/", "f", "g", "h", "x", "\n", "\r"}

ExpandInputs == UNION {[1..n -> ExpandChars] : n \in 0..MaxLen}

\* one string is the argument of expandAtFile, the value of the environment variable
\* of u and the content of the secret file of u
InitExpand ==
  /\ \E s \in ExpandInputs :
       /\ expIn = s
       /\ Start([formal |-> BaseFlags, eh |-> "ContinueOnError", args |-> <<>>,
                 env |-> <<KV(<<"U">>, "=", s)>>, sd |-> NameU :> File(s), cfg |-> Absent])
  /\ expOut = [s |-> <<>>, err |-> "none"]

(***************************************************************************)
(* Operations                                                              *)
(***************************************************************************)
Alive == outcome \in {"none", "returned"}

\* flag.Parse(): CommandLine.Parse(os.Args[1:])
DoParse ==
  /\ Alive /\ ~fs.parsed /\ calls < MaxCalls
  /\ \E order \in EnvOrders(ParseArgs([fs EXCEPT !.parsed = TRUE, !.args = osArgs]).f, environ) :
       \E r \in {Parse(fs, osArgs, environ, order, configFile)} :
          /\ fs' = r.f
          /\ err' = r.err
          /\ outcome' = r.outcome
          /\ lastOp' = [op |-> "Parse", passes |-> r.passes]
  /\ calls' = calls + 1
  /\ UNCHANGED <<osArgs, environ, secretDir, configFile, pending, fired, writes, expIn, expOut>>

\* fs.ParseEnv(os.Environ())
DoParseEnv ==
  /\ Alive /\ calls < MaxCalls
  /\ \E order \in EnvOrders(fs, environ) :
       \E r \in {ParseEnvIn(fs, environ, order)} :
          /\ fs' = r.f
          /\ err' = r.err
  /\ outcome' = "returned"
  /\ lastOp' = [op |-> "ParseEnv", passes |-> <<"env">>]
  /\ calls' = calls + 1
  /\ UNCHANGED <<osArgs, environ, secretDir, configFile, pending, fired, writes, expIn, expOut>>

\* fs.ParseSecretDir(dir)
DoParseSecretDir ==
  /\ Alive /\ calls < MaxCalls
  /\ \E path \in {SecretPath} :
       \E r \in {ParseSecretDir(fs, secretDir, path)} :
          /\ fs' = r.f
          /\ err' = r.err
  /\ outcome' = "returned"
  /\ lastOp' = [op |-> "ParseSecretDir", passes |-> <<"secret">>]
  /\ calls' = calls + 1
  /\ UNCHANGED <<osArgs, environ, secretDir, configFile, pending, fired, writes, expIn, expOut>>

\* fs.ParseFile(path)
DoParseFile ==
  /\ Alive /\ calls < MaxCalls
  /\ \E path \in {ConfigPath} :
       \E r \in {ParseFile(fs, configFile, path)} :
          /\ fs' = r.f
          /\ err' = r.err
  /\ outcome' = "returned"
  /\ lastOp' = [op |-> "ParseFile", passes |-> <<"config">>]
  /\ calls' = calls + 1
  /\ UNCHANGED <<osArgs, environ, secretDir, configFile, pending, fired, writes, expIn, expOut>>

\* fs.Set(name, value)
DoSet ==
  /\ Alive /\ calls < MaxCalls
  /\ \E in \in {<<NameU, <<"k">>>>, <<NameN, <<"x">>>>} :
       \E r \in {Set(fs, in[1], in[2])} :
          /\ fs' = r.f
          /\ err' = r.err
  /\ outcome' = "returned"
  /\ lastOp' = [op |-> "Set", passes |-> <<>>]
  /\ calls' = calls + 1
  /\ UNCHANGED <<osArgs, environ, secretDir, configFile, pending, fired, writes, expIn, expOut>>

\* a file of the secret directory is written
WriteSecret ==
  /\ Alive /\ writes < MaxWrites
  /\ writes' = writes + 1
  /\ \E in \in {<<NameU, <<"t", "\n">>>>, <<NameN, <<"x">>>>} :
       /\ (in[1] \in DOMAIN secretDir => secretDir[in[1]].data # in[2])
       /\ secretDir' = (in[1] :> File(in[2])) @@ secretDir
  /\ pending' = pending \cup {"secret"}
  /\ UNCHANGED <<fs, osArgs, environ, configFile, err, outcome, lastOp, fired, calls, expIn, expOut>>

\* the config file is written
WriteConfig ==
  /\ Alive /\ writes < MaxWrites
  /\ writes' = writes + 1
  /\ \E data \in {KV(NameU, " ", <<"g", "\n">>), KV(NameN, "=", <<"x", "\n">>)} :
       /\ configFile # Present(data)
       /\ configFile' = Present(data)
  /\ pending' = pending \cup {"config"}
  /\ UNCHANGED <<fs, osArgs, environ, secretDir, err, outcome, lastOp, fired, calls, expIn, expOut>>

\* the watcher handles one change notification
WatcherReload ==
  /\ Alive
  /\ \E kind \in pending :
       \E r \in {Reload(fs, kind, secretDir, configFile)} :
          /\ fs' = r.f
          /\ err' = r.err
          /\ fired' = Changed(fs, r.f)
          /\ pending' = pending \ {kind}
          /\ lastOp' = [op |-> "Reload", passes |-> <<kind>>]
  /\ outcome' = "returned"
  /\ UNCHANGED <<osArgs, environ, secretDir, configFile, calls, writes, expIn, expOut>>

\* expandAtFile(expIn), called directly
Expand ==
  /\ expOut.err = "none"
  /\ expOut' = expandAtFile(expIn)
  /\ UNCHANGED <<fs, osArgs, environ, secretDir, configFile, err, outcome, lastOp, pending,
                 fired, calls, writes, expIn>>

Next ==
  \/ DoParse
  \/ DoParseEnv
  \/ DoParseSecretDir
  \/ DoParseFile
  \/ DoSet
  \/ WriteSecret
  \/ WriteConfig
  \/ WatcherReload

Spec == Init /\ [][Next]_vars

NextExpand ==
  \/ Expand
  \/ DoParseEnv
  \/ DoParseSecretDir

SpecExpand == InitExpand /\ [][NextExpand]_vars

(***************************************************************************)
(* Declarations and struct registration.  CommandLine is fs.  A struct is  *)
(* the sequence of its fields; a field is a record of its Go name, its     *)
(* type, whether it is exported, and its tags flag, required, default,     *)
(* min, max and pattern ("" when absent); the fields of a nested struct    *)
(* are in `fields`.  The argument of ParseStruct is a record of its        *)
(* reflect Kind, whether it is nil, the Kind it points to, and its %T.     *)
(***************************************************************************)
\* Var with a redeclared name replacing the Flag instead of panicking
Var_Overwrite(f, name, flag) ==
  [f |-> [f EXCEPT !.formal = (name :> flag) @@ @,
                   !.value = (name :> flag.Default) @@ @,
                   !.source = (name :> "default") @@ @],
   err |-> NoErr, outcome |-> "returned"]

\* FlagSet.Var(value, name, usage), reached through StringVar, IntVar and BoolVar,
\* which first store the default in the bound variable
Var(f, name, flag) ==
  IF name \in DOMAIN f.formal
    THEN [f |-> f, err |-> Error("flag redefined", name, <<>>), outcome |-> "panic"]
    ELSE [f |-> [f EXCEPT !.formal = (name :> flag) @@ @,
                          !.value = (name :> flag.Default) @@ @,
                          !.source = (name :> "default") @@ @],
          err |-> NoErr, outcome |-> "returned"]

Fld(Name, flag, type) ==
  [Name |-> Name, exported |-> TRUE, flag |-> flag, type |-> type, required |-> FALSE,
   def |-> <<>>, min |-> <<>>, max |-> <<>>, pattern |-> <<>>, fields |-> <<>>,
   flagPrefix |-> <<>>]

\* strconv.ParseFloat(tag, 64) on the tags of the model: a decimal integer, or a
\* string that is no number
ParseFloat(s) == ParseInt(s)

\* whether pat occurs in v
Contains(v, pat) ==
  \E i \in 0..(Len(v) - Len(pat)) : SubSeq(v, i + 1, i + Len(pat)) = pat

\* regexp.Compile(pat) on the patterns of the model: a pattern of letters is a
\* literal that matches the strings it occurs in, "(" does not compile
CompileFails(pat) == "(" \in {pat[i] : i \in 1..Len(pat)}

\* one validation failure
Failure(kind, name, tag) == [kind |-> kind, name |-> name, tag |-> tag]

\* checkMin(v, minTag, name): the failures it returns, none for nil
checkMin(kind, v, minTag, name) ==
  IF minTag = <<>> THEN <<>>
  ELSE IF ParseFloat(minTag).err # "nil" THEN <<Failure("invalid min tag", name, minTag)>>
  ELSE IF kind = "int" /\ v < ParseFloat(minTag).v THEN <<Failure("value < min", name, minTag)>>
  ELSE IF kind = "string" /\ Len(v) < ParseFloat(minTag).v
    THEN <<Failure("length < min", name, minTag)>>
  ELSE <<>>

\* checkMax(v, maxTag, name)
checkMax(kind, v, maxTag, name) ==
  IF maxTag = <<>> THEN <<>>
  ELSE IF ParseFloat(maxTag).err # "nil" THEN <<Failure("invalid max tag", name, maxTag)>>
  ELSE IF kind = "int" /\ v > ParseFloat(maxTag).v THEN <<Failure("value > max", name, maxTag)>>
  ELSE IF kind = "string" /\ Len(v) > ParseFloat(maxTag).v
    THEN <<Failure("length > max", name, maxTag)>>
  ELSE <<>>

\* checkPattern(v, pat, name)
checkPattern(kind, v, pat, name) ==
  IF pat = <<>> THEN <<>>
  ELSE IF kind # "string" THEN <<>>
  ELSE IF CompileFails(pat) THEN <<Failure("invalid pattern tag", name, pat)>>
  ELSE IF ~Contains(v, pat) THEN <<Failure("does not match pattern", name, pat)>>
  ELSE <<>>

\* the closure appended to CommandLine.deferredValidations, called: the MultiError m
\* of the three checks on the bound variable, <<>> when it returns nil
Validation(f, d) ==
  checkMin(d.kind, f.value[d.name], d.min, d.name)
    \o checkMax(d.kind, f.value[d.name], d.max, d.name)
    \o checkPattern(d.kind, f.value[d.name], d.pattern, d.name)

RECURSIVE RunValidations(_, _)

\* the loop over the deferred validations stopping at the first one that fails
RECURSIVE RunValidations_FirstOnly(_, _)
RunValidations_FirstOnly(f, ds) ==
  IF Len(ds) = 0 THEN <<>>
  ELSE IF Validation(f, Head(ds)) # <<>> THEN <<Validation(f, Head(ds))>>
  ELSE RunValidations_FirstOnly(f, Tail(ds))

\* for _, fn := range CommandLine.deferredValidations { all.Append(fn()) }: the
\* errs of `all`, one MultiError for each validation that failed (Append drops nil)
RunValidations(f, ds) ==
  IF Len(ds) = 0 THEN <<>>
  ELSE (IF Validation(f, Head(ds)) # <<>> THEN <<Validation(f, Head(ds))>> ELSE <<>>)
         \o RunValidations(f, Tail(ds))

\* strings.Join(names, sep)
RECURSIVE Join(_, _)
Join(names, sep) ==
  IF Len(names) = 0 THEN <<>>
  ELSE IF Len(names) = 1 THEN names[1]
  ELSE names[1] \o sep \o Join(Tail(names), sep)

\* the end of parseStructInternal with the required flags never checked
MissingRequired_None(f, required) == NoErr

\* the end of parseStructInternal: the required flags that are not in actual
MissingRequired(f, required) ==
  IF SelectSeq(required, LAMBDA name : name \notin f.actual) # <<>>
    THEN Error("missing required flags", <<>>,
               Join(SelectSeq(required, LAMBDA name : name \notin f.actual), <<",", " ">>))
    ELSE NoErr

\* the default a built-in handler registers the flag with: the zero value of the
\* field when it is required or has no default tag, else the parsed default tag
DefaultOf(field) ==
  IF field.type = "bool"
    THEN IF field.required \/ field.def = <<>> THEN [v |-> FALSE, err |-> "nil"]
         ELSE [v |-> ParseBool(field.def).v,
               err |-> IF ParseBool(field.def).err = "nil" THEN "nil" ELSE "invalid default bool"]
  ELSE IF field.type = "int"
    THEN IF field.required \/ field.def = <<>> THEN [v |-> 0, err |-> "nil"]
         ELSE [v |-> ParseInt(field.def).v,
               err |-> IF ParseInt(field.def).err = "nil" THEN "nil" ELSE "invalid default int"]
  ELSE IF field.type = "string"
    THEN [v |-> IF field.required THEN <<>> ELSE field.def, err |-> "nil"]
  ELSE [v |-> <<>>, err |-> "unsupported field type"]

\* VALIDATION_TAGS: the closure is appended when one of the three tags is set
Enqueue(f, field) ==
  IF field.min # <<>> \/ field.max # <<>> \/ field.pattern # <<>>
    THEN [f EXCEPT !.deferredValidations =
            Append(@, [name |-> field.flag, kind |-> field.type, min |-> field.min,
                       max |-> field.max, pattern |-> field.pattern])]
    ELSE f

\* the loop body for a field with a flag tag, after its handler built the default d
\* and called Var through StringVar, IntVar or BoolVar with result v
Registered(r, field, v) ==
  IF v.outcome = "panic"
    THEN [f |-> r.f, required |-> r.required, err |-> v.err, outcome |-> "panic"]
    ELSE [f |-> Enqueue(v.f, field),
          required |-> IF field.required THEN Append(r.required, field.flag) ELSE r.required,
          err |-> NoErr, outcome |-> "returned"]

\* the field registered with whatever the default parsed to, its error dropped
HandleField_Lenient(r, field, d) ==
  Registered(r, field, Var(r.f, field.flag, Flag(field.type, d.v)))

\* tryHandleStructField and the legacy switch: regErr(field.Name, err) when the
\* default does not parse or the type is unsupported
HandleField(r, field, d) ==
  IF d.err # "nil"
    THEN [f |-> r.f, required |-> r.required, err |-> Error(d.err, field.Name, field.def),
          outcome |-> "returned"]
    ELSE Registered(r, field, Var(r.f, field.flag, Flag(field.type, d.v)))

\* the recursive call for a nested struct returned n: its error is returned as is
Nested(r, n) ==
  [f |-> n.f, required |-> r.required, err |-> n.err, outcome |-> n.outcome]

\* parseStructInternal(fv.Addr().Interface(), ParseStructOptions{AutoParse: false})
\* after its registration loop returned b: the guards passed, nothing is parsed or
\* validated, the required flags are checked
NestedCall(b) ==
  IF b.err # NoErr \/ b.outcome = "panic" THEN [f |-> b.f, err |-> b.err, outcome |-> b.outcome]
  ELSE [f |-> b.f, err |-> MissingRequired(b.f, b.required), outcome |-> "returned"]

\* a field without flag tag whose type is a struct: the loop recurses into it
IsNested(field) == field.exported /\ field.flag = <<>> /\ field.type = "struct"

\* the state of a registration loop that starts on CommandLine = f
Registering(f) == [f |-> f, required |-> <<>>, err |-> NoErr, outcome |-> "returned"]

\* the body of `for i := 0; i < t.NumField(); i++` for one field; n is what the
\* recursive call returned when the field is a nested struct
RegisterField(r, field, n) ==
  IF ~field.exported THEN r
  ELSE IF field.flag = <<>> THEN (IF field.type = "struct" THEN Nested(r, n) ELSE r)
  ELSE HandleField(r, field, DefaultOf(field))

\* the loop over the fields: the first error or panic ends it
RECURSIVE RegisterFields(_, _)
RegisterFields(r, fields) ==
  IF Len(fields) = 0 \/ r.err # NoErr \/ r.outcome = "panic" THEN r
  ELSE IF IsNested(Head(fields))
    THEN RegisterFields(
           RegisterField(r, Head(fields),
                         NestedCall(RegisterFields(Registering(r.f), Head(fields).fields))),
           Tail(fields))
  ELSE RegisterFields(RegisterField(r, Head(fields), Registering(r.f)), Tail(fields))

\* the registration loop of parseStructInternal over the fields of *s
StructBody(f, fields) == RegisterFields(Registering(f), fields)

\* what the call evaluated: each deferred validation with the value it read
Ran(f) ==
  [i \in 1..Len(f.deferredValidations) |->
     [name |-> f.deferredValidations[i].name, value |-> f.value[f.deferredValidations[i].name]]]

\* the deferred validations run before the required flags are checked; a failure
\* returns &all
AfterParse(f, required, auto, passes) ==
  IF auto /\ Len(f.deferredValidations) > 0
       /\ RunValidations(f, f.deferredValidations) # <<>>
    THEN [f |-> f, err |-> Error("MultiError", <<>>, RunValidations(f, f.deferredValidations)),
          outcome |-> "returned", passes |-> passes, ran |-> Ran(f)]
    ELSE [f |-> f, err |-> MissingRequired(f, required), outcome |-> "returned",
          passes |-> passes, ran |-> IF auto THEN Ran(f) ELSE <<>>]

\* `if opts.AutoParse && !Parsed() { Parse() }` returned p: its error is dropped,
\* unless the error handling of CommandLine exited or panicked
AfterAutoParse(p, required, auto) ==
  IF p.outcome # "returned"
    THEN [f |-> p.f, err |-> p.err, outcome |-> p.outcome, passes |-> p.passes, ran |-> <<>>]
    ELSE AfterParse(p.f, required, auto, p.passes)

\* parseStructInternal after the registration loop returned b
AfterRegistration(b, auto, arguments, env, order, cfg) ==
  IF b.err # NoErr \/ b.outcome = "panic"
    THEN [f |-> b.f, err |-> b.err, outcome |-> b.outcome, passes |-> <<>>, ran |-> <<>>]
  ELSE IF auto /\ ~b.f.parsed
    THEN AfterAutoParse(Parse(b.f, arguments, env, order, cfg), b.required, auto)
  ELSE AfterParse(b.f, b.required, auto, <<>>)

\* parseStructInternal without the guard on Parsed()
parseStructInternal_NoParsedGuard(f, s, auto, arguments, env, order, cfg) ==
  IF s.Kind # "Ptr" \/ s.IsNil
    THEN [f |-> f, outcome |-> "returned", passes |-> <<>>, ran |-> <<>>,
          err |-> Error("ParseStruct expects a non-nil pointer to a struct, got %T", <<>>, s.T)]
  ELSE IF s.Elem # "Struct"
    THEN [f |-> f, outcome |-> "returned", passes |-> <<>>, ran |-> <<>>,
          err |-> Error("ParseStruct expects a pointer to a struct, got %T", <<>>, s.T)]
  ELSE AfterRegistration(StructBody(f, s.fields), auto, arguments, env, order, cfg)

\* parseStructInternal(s, opts) error, on CommandLine = f
parseStructInternal(f, s, auto, arguments, env, order, cfg) ==
  IF s.Kind # "Ptr" \/ s.IsNil
    THEN [f |-> f, outcome |-> "returned", passes |-> <<>>, ran |-> <<>>,
          err |-> Error("ParseStruct expects a non-nil pointer to a struct, got %T", <<>>, s.T)]
  ELSE IF f.parsed /\ auto
    THEN [f |-> f, outcome |-> "returned", passes |-> <<>>, ran |-> <<>>,
          err |-> Error("ParseStruct must be called before flag.Parse()", <<>>, <<>>)]
  ELSE IF s.Elem # "Struct"
    THEN [f |-> f, outcome |-> "returned", passes |-> <<>>, ran |-> <<>>,
          err |-> Error("ParseStruct expects a pointer to a struct, got %T", <<>>, s.T)]
  ELSE AfterRegistration(StructBody(f, s.fields), auto, arguments, env, order, cfg)

(***************************************************************************)
(* The specification of declarations and struct registration               *)
(***************************************************************************)
NameX == <<"x">>

PtrTo(fields) ==
  [Kind |-> "Ptr", IsNil |-> FALSE, Elem |-> "Struct", T |-> <<"*", "T">>, fields |-> fields]
StructValue(fields) ==
  [Kind |-> "Struct", IsNil |-> FALSE, Elem |-> "", T |-> <<"T">>, fields |-> fields]
NilPtr ==
  [Kind |-> "Ptr", IsNil |-> TRUE, Elem |-> "Struct", T |-> <<"*", "T">>, fields |-> <<>>]
NilInterface ==
  [Kind |-> "Invalid", IsNil |-> TRUE, Elem |-> "", T |-> <<"<", "n", "i", "l", ">">>,
   fields |-> <<>>]
PtrToInt ==
  [Kind |-> "Ptr", IsNil |-> FALSE, Elem |-> "Int", T |-> <<"*", "i", "n", "t">>,
   fields |-> <<>>]

FldU == Fld(<<"U">>, NameU, "string")
FldN == Fld(<<"N">>, NameN, "int")
FldB == Fld(<<"B">>, NameB, "bool")

\* the structs handed to ParseStruct
StructRequired ==
  <<[FldU EXCEPT !.required = TRUE, !.def = <<"q">>], [FldN EXCEPT !.required = TRUE], FldB>>
StructBadDefault ==
  <<[FldU EXCEPT !.required = TRUE],
    [FldB EXCEPT !.def = <<"n","o","t","a","b","o","o","l">>],
    [FldN EXCEPT !.required = TRUE]>>
StructBadInt ==
  <<[FldN EXCEPT !.def = <<"x">>, !.min = <<"1">>], FldU>>
StructValidated ==
  <<[FldN EXCEPT !.def = <<"1","0">>, !.min = <<"1">>, !.max = <<"2","0">>],
    [FldU EXCEPT !.def = <<"s","v","c">>, !.pattern = <<"s">>]>>
StructViolated ==
  <<[FldN EXCEPT !.min = <<"6">>, !.max = <<"3">>],
    [FldU EXCEPT !.pattern = <<"z">>, !.min = <<"2">>],
    [FldB EXCEPT !.required = TRUE]>>
StructNested ==
  <<[Fld(<<"I","n","n","e","r">>, <<>>, "struct") EXCEPT
       !.fields = <<[FldN EXCEPT !.min = <<"6">>]>>],
    [FldU EXCEPT !.pattern = <<"k">>]>>
StructNestedRequired ==
  <<[Fld(<<"I","n","n","e","r">>, <<>>, "struct") EXCEPT
       !.fields = <<[FldN EXCEPT !.required = TRUE]>>],
    FldU>>
\* struct { Outer struct { Inner struct { N int `flag:"n"` } `flagPrefix:"i"`;
\*                         B bool `flag:"b"` } `flagPrefix:"o"`; U string `flag:"u"` }
StructPrefixed ==
  <<[Fld(<<"O","u","t","e","r">>, <<>>, "struct") EXCEPT
       !.flagPrefix = <<"o">>,
       !.fields = <<[Fld(<<"I","n","n","e","r">>, <<>>, "struct") EXCEPT
                       !.flagPrefix = <<"i">>, !.fields = <<FldN>>],
                    FldB>>],
    FldU>>
StructBadTags ==
  <<[FldN EXCEPT !.min = <<"x">>, !.max = <<"y">>], [FldU EXCEPT !.pattern = <<"(">>]>>
StructSkipped ==
  <<[FldN EXCEPT !.exported = FALSE], Fld(<<"P">>, <<>>, "int"), FldB,
    Fld(<<"C">>, NameX, "chan int")>>
StructDuplicate ==
  <<FldU, [Fld(<<"V">>, NameU, "string") EXCEPT !.required = TRUE]>>
StructFlag == <<FldB>>

StructInputs ==
  {PtrTo(s) : s \in {StructRequired, StructBadDefault, StructBadInt, StructValidated,
                     StructViolated, StructNested, StructNestedRequired, StructBadTags,
                     StructSkipped, StructDuplicate, StructFlag, StructPrefixed}}
    \cup {StructValue(StructRequired), NilPtr, NilInterface, PtrToInt}

\* CommandLine with the two controlling flags declared, the command line, the
\* environment, the secret directory and the config file of the process
StructScenarios ==
  [formal : {DefaultSecretDirFlagname :> Flag("string", SecretPath) @@
             DefaultConfigFlagname :> Flag("string", ConfigPath)},
   eh : {"ContinueOnError", "ExitOnError"},
   args : {<<>>,
           <<Opt(NameU), <<"k">>>>,
           <<Opt(NameN), <<"5">>, Opt(NameU), <<"s">>, Opt(NameB)>>,
           <<Opt(NameN), <<"x">>>>},
   env : {<<>>, <<KV(<<"N">>, "=", <<"7">>)>>},
   sd : {NoDir, SecretU},
   cfg : {Present(<<>>), ConfigU}]

InitStruct ==
  /\ \E sc \in StructScenarios : Start(sc)
  /\ expIn = <<>>
  /\ expOut = [s |-> <<>>, err |-> "none"]

\* flag.StringVar(&v, name, "d", usage)
DoVar ==
  /\ Alive /\ calls < MaxCalls
  /\ \E name \in {NameU, NameX}, def \in {<<"d">>, <<"e">>} :
       \E r \in {Var(fs, name, Flag("string", def))} :
          /\ fs' = r.f
          /\ err' = r.err
          /\ outcome' = r.outcome
          /\ lastOp' = [op |-> "Var", passes |-> <<>>, name |-> name, before |-> fs]
  /\ calls' = calls + 1
  /\ UNCHANGED <<osArgs, environ, secretDir, configFile, pending, fired, writes, expIn, expOut>>

\* flag.ParseStruct(s) and flag.ParseStructWithOptions(s, ParseStructOptions{auto})
DoParseStruct ==
  /\ Alive /\ calls < MaxCalls
  /\ \E s \in StructInputs, auto \in BOOLEAN :
       \E order \in EnvOrders(ParseArgs([StructBody(fs, s.fields).f EXCEPT
                                           !.parsed = TRUE, !.args = osArgs]).f, environ) :
          \E r \in {parseStructInternal(fs, s, auto, osArgs, environ, order, configFile)} :
             /\ fs' = r.f
             /\ err' = r.err
             /\ outcome' = r.outcome
             /\ lastOp' = [op |-> "ParseStruct", passes |-> r.passes, s |-> s, auto |-> auto,
                           ran |-> r.ran, before |-> fs]
  /\ calls' = calls + 1
  /\ UNCHANGED <<osArgs, environ, secretDir, configFile, pending, fired, writes, expIn, expOut>>

NextStruct ==
  \/ DoVar
  \/ DoParseStruct
  \/ DoParse

SpecStruct == InitStruct /\ [][NextStruct]_vars

(***************************************************************************)
(* The command-line registry with sensitive flags: flags are marked, the   *)
(* passes run, the registry is introspected.                               *)
(***************************************************************************)
ArgsN(v) == <<Opt(NameN), v>>
EnvN(v) == KV(<<"N">>, "=", v)
SecretN(v) == NameN :> File(v)
ConfigN(v) == Present(KV(NameN, " ", v \o <<"\n">>))

SensitiveScenarios ==
  [formal : {CtlFlags(SecretPath, ConfigPath)},
   eh : {"ContinueOnError"},
   args : {<<>>, <<Opt(NameU), <<"c">>>>, ArgsN(<<"5">>), ArgsN(<<"x">>),
           <<OptEq(NameU, <<"c">>)>> \o ArgsN(<<"5">>)},
   env : {<<>>, <<EnvU>>, <<EnvN(<<"x">>)>>},
   sd : {NoDir, SecretU, SecretN(<<"x">>)},
   cfg : {Present(<<>>), ConfigU, ConfigN(<<"3">>), ConfigN(<<"x">>)}]

InitSensitive ==
  /\ \E sc \in SensitiveScenarios : Start(sc)
  /\ expIn = <<>>
  /\ expOut = [s |-> <<>>, err |-> "none"]

\* fs.MarkSensitive(name), in the declaration phase
DoMarkSensitive ==
  /\ calls = 0 /\ lastOp.op = "none"
  /\ \E name \in {NameU, NameN} \ fs.sensitive : fs' = MarkSensitive(fs, name)
  /\ UNCHANGED <<osArgs, environ, secretDir, configFile, err, outcome, lastOp, pending,
                 fired, calls, writes, expIn, expOut>>

\* fs.Introspect()
DoIntrospect ==
  /\ Alive /\ lastOp.op # "Introspect"
  /\ lastOp' = [op |-> "Introspect", passes |-> lastOp.passes, after |-> lastOp.op,
                metas |-> Introspect(fs)]
  /\ UNCHANGED <<fs, osArgs, environ, secretDir, configFile, err, outcome, pending,
                 fired, calls, writes, expIn, expOut>>

\* internalReset(): CommandLine = NewFlagSet(os.Args[0], ContinueOnError)
internalReset == NewFlagSet([name \in {} |-> Flag("string", <<>>)], "ContinueOnError")

\* WithArgs(args, fn), where arguments is args[1:]: internalReset(), then
\* CommandLine.Parse(os.Args[1:]), then fn() unless Parse returned an error.
\* [f, err, outcome, passes, fn], fn telling whether fn was invoked (fn returns nil)
WithArgs(arguments, env, order, cfg) ==
  [f |-> Parse(internalReset, arguments, env, order, cfg).f,
   err |-> Parse(internalReset, arguments, env, order, cfg).err,
   outcome |-> Parse(internalReset, arguments, env, order, cfg).outcome,
   passes |-> Parse(internalReset, arguments, env, order, cfg).passes,
   fn |-> Parse(internalReset, arguments, env, order, cfg).err = NoErr]

\* flag.WithArgs(args, fn) with args[1:] = arguments
DoWithArgs ==
  /\ Alive /\ calls < MaxCalls
  /\ \E arguments \in {osArgs, <<>>, <<<<"p">>>>} :
       \E order \in EnvOrders(internalReset, environ) :
         \E r \in {WithArgs(arguments, environ, order, configFile)} :
            /\ fs' = r.f
            /\ err' = r.err
            /\ outcome' = r.outcome
            /\ lastOp' = [op |-> "WithArgs", passes |-> r.passes, before |-> fs,
                          arguments |-> arguments, fn |-> r.fn]
  /\ calls' = calls + 1
  /\ UNCHANGED <<osArgs, environ, secretDir, configFile, pending, fired, writes, expIn, expOut>>

NextSensitive ==
  \/ DoMarkSensitive
  \/ DoParse
  \/ DoParseEnv
  \/ DoParseSecretDir
  \/ DoParseFile
  \/ DoIntrospect
  \/ DoWithArgs

SpecSensitive == InitSensitive /\ [][NextSensitive]_vars

(***************************************************************************)
(* What each source supplies, read off the inputs                          *)
(***************************************************************************)
\* the registry as declared, before any pass
Fresh == NewFlagSet(fs.formal, fs.errorHandling)

\* the first call was `op`, and nothing was written since
FirstCall(op) == calls = 1 /\ writes = 0 /\ lastOp.op = op

StringFlags == {name \in DOMAIN fs.formal : fs.formal[name].Kind = "string"}

\* the positions of the tokens `-name value` and `-name=value` of the command line
ArgAt(name) ==
  {i \in 1..Len(osArgs) :
     \/ osArgs[i] = Opt(name) /\ i < Len(osArgs)
     \/ HasPrefix(osArgs[i], OptEq(name, <<>>))}

\* the string the command line gives for name
RawArg(name) ==
  LET i == CHOOSE k \in ArgAt(name) : \A j \in ArgAt(name) : k <= j
  IN IF osArgs[i] = Opt(name) THEN osArgs[i + 1] ELSE From(osArgs[i], Len(name) + 2)

\* the lines `name value` and `name=value` of the config file
LineAt(name) ==
  {i \in 1..Len(ScanLines(configFile.data)) :
     \E sep \in {<<" ">>, <<"=">>} : HasPrefix(ScanLines(configFile.data)[i], name \o sep)}

\* the string the config file gives for name
RawLine(name) ==
  LET i == CHOOSE k \in LineAt(name) : \A j \in LineAt(name) : k <= j
  IN From(ScanLines(configFile.data)[i], Len(name) + 1)

\* whether the source read by `op` gives a string for name, and that string
HasRaw(op, name) ==
  IF op = "Parse" THEN ArgAt(name) # {}
  ELSE IF op = "ParseEnv" THEN EnvKey(fs, name) \in EnvKeys(environ)
  ELSE IF op = "ParseSecretDir" THEN name \in DOMAIN secretDir /\ ~secretDir[name].isDir
  ELSE configFile.exists /\ LineAt(name) # {}

Raw(op, name) ==
  IF op = "Parse" THEN RawArg(name)
  ELSE IF op = "ParseEnv" THEN EnvValue(environ, EnvKey(fs, name))
  ELSE IF op = "ParseSecretDir" THEN TrimRightCRLF(secretDir[name].data)
  ELSE RawLine(name)

PassOps == {"Parse", "ParseEnv", "ParseSecretDir", "ParseFile"}

\* the path the controlling flag `ctl` holds, "" when it is not declared
PathOf(ctl) == IF ctl \in DOMAIN fs.formal THEN fs.value[ctl] ELSE <<>>

\* each source read alone from the declared registry
CliAlone == ParseArgs([Fresh EXCEPT !.parsed = TRUE, !.args = osArgs])
EnvAlone(name) == ParseEnvFlag(Fresh, environ, name)
SecretAlone == ParseSecretDir(Fresh, secretDir, PathOf(DefaultSecretDirFlagname))
ConfigAlone == ParseFile(Fresh, configFile, PathOf(DefaultConfigFlagname))

\* the value of the highest-precedence source that supplies name, else its default
Resolved(name) ==
  IF name \in CliAlone.f.actual THEN CliAlone.f.value[name]
  ELSE IF name \in EnvAlone(name).f.actual THEN EnvAlone(name).f.value[name]
  ELSE IF PathOf(DefaultSecretDirFlagname) # <<>> /\ name \in SecretAlone.f.actual
    THEN SecretAlone.f.value[name]
  ELSE IF PathOf(DefaultConfigFlagname) # <<>> /\ name \in ConfigAlone.f.actual
    THEN ConfigAlone.f.value[name]
  ELSE fs.formal[name].Default

\* every source that is read parses
SourcesParse ==
  /\ CliAlone.err = NoErr
  /\ \A name \in DOMAIN fs.formal : EnvAlone(name).err = NoErr
  /\ PathOf(DefaultSecretDirFlagname) # <<>> => SecretAlone.err = NoErr
  /\ PathOf(DefaultConfigFlagname) # <<>> => ConfigAlone.err = NoErr

(***************************************************************************)
(* C1                                                                      *)
(***************************************************************************)
\* C1: after one FlagSet.Parse over sources that all parse, every declared flag
\* holds the value of the highest-precedence source that supplies it, in the order
\* CLI > environment > secret directory > config file, and its default when no
\* source supplies it.
C1_Precedence ==
  (FirstCall("Parse") /\ err = NoErr /\ SourcesParse) =>
    \A name \in DOMAIN fs.formal : fs.value[name] = Resolved(name)

(***************************************************************************)
(* C2                                                                      *)
(***************************************************************************)
\* a step that is one call of ParseEnv, ParseSecretDir or ParseFile
PassStep == calls' = calls + 1 /\ lastOp'.op \in {"ParseEnv", "ParseSecretDir", "ParseFile"}

\* C2: a call of ParseEnv, ParseSecretDir or ParseFile leaves every flag that is in
\* `actual` when the call starts with its value and its `actual` entry, and the
\* error it returns, if any, is not about such a flag, whatever the source holds
\* for it.
C2_AlreadySetWins ==
  [][PassStep =>
       \A name \in fs.actual :
         /\ fs'.value[name] = fs.value[name]
         /\ name \in fs'.actual
         /\ fs'.source[name] = fs.source[name]
         /\ err'.name # name]_vars

\* ParseFile has passed over the line `n x` of the config file, n being set to 5 by
\* the command line, and has set u from the next line
C2_Witness ==
  /\ lastOp.op = "ParseFile"
  /\ err = NoErr
  /\ NameN \in fs.actual /\ fs.source[NameN] = "cli" /\ fs.value[NameN] = 5
  /\ configFile = Present(KV(NameN, " ", <<"x", "\n">>) \o KV(NameU, " ", <<"f", "\n">>))
  /\ fs.source[NameU] = "config"

(***************************************************************************)
(* C3                                                                      *)
(***************************************************************************)
\* the passes of a Parse that ends without error, as the controlling flags gate them
GatedPasses ==
  <<"cli", "env">>
    \o (IF PathOf(DefaultSecretDirFlagname) # <<>> THEN <<"secret">> ELSE <<>>)
    \o (IF PathOf(DefaultConfigFlagname) # <<>> THEN <<"config">> ELSE <<>>)

\* C3: a FlagSet.Parse that ends without error has run the CLI pass, then the
\* environment pass, then the secret-directory pass iff `secret-dir` holds a
\* non-empty path, then the config-file pass iff `config` holds a non-empty path.
C3_PassOrder ==
  (FirstCall("Parse") /\ err = NoErr /\ SourcesParse) => lastOp.passes = GatedPasses

(***************************************************************************)
(* C4                                                                      *)
(***************************************************************************)
\* C4: when the first call is a pass that ends without error and its source gives a
\* string flag a value whose @file expansion succeeds, the flag holds the expanded
\* string.
C4_AtFileEveryPass ==
  \A op \in PassOps : \A name \in StringFlags :
    (FirstCall(op) /\ err = NoErr /\ HasRaw(op, name)
       /\ expandAtFile(Raw(op, name)).err = "nil")
      => fs.value[name] = expandAtFile(Raw(op, name)).s

(***************************************************************************)
(* C5                                                                      *)
(***************************************************************************)
Terminators == {"\r", "\n"}

\* s is data without some of its trailing terminators
IsContentOf(s, data) ==
  /\ Len(s) <= Len(data)
  /\ Upto(data, Len(s)) = s
  /\ \A i \in (Len(s) + 1)..Len(data) : data[i] \in Terminators

\* C5: expandAtFile(expIn) returns the no-expansion signal when expIn is empty or
\* does not start with '@'; expIn without its first '@' and no error when expIn
\* starts with "@@"; and otherwise the empty-path error for "@", the content of the
\* file named after the '@' when it can be read, the read error when it cannot.
\* ParseEnv and ParseSecretDir apply a value without a leading '@' as it is and
\* return no error.
C5_ExpandClassifies ==
  /\ expOut.err # "none" =>
       IF expIn = <<>> \/ expIn[1] # "@"
         THEN expOut.err = "errNoAtExpansion"
       ELSE IF HasPrefix(expIn, <<"@", "@">>)
         THEN expOut = [s |-> Tail(expIn), err |-> "nil"]
       ELSE IF expIn = <<"@">>
         THEN expOut.err = "empty path"
       ELSE IF Tail(expIn) \in DOMAIN Files
         THEN expOut.err = "nil" /\ IsContentOf(expOut.s, Files[Tail(expIn)])
       ELSE expOut.err = ReadFile(Tail(expIn)).err /\ expOut.err \notin {"nil", "errNoAtExpansion"}
  /\ (FirstCall("ParseEnv") /\ (expIn = <<>> \/ expIn[1] # "@")) =>
       err = NoErr /\ NameU \in fs.actual /\ fs.value[NameU] = expIn
  /\ (FirstCall("ParseSecretDir") /\ \A i \in 1..Len(expIn) : expIn[i] \notin Terminators \cup {"@"}) =>
       err = NoErr /\ NameU \in fs.actual /\ fs.value[NameU] = expIn

\* expandAtFile("@@x") has returned "@x" and no error
C5_Witness == expIn = <<"@", "@", "x">> /\ expOut = [s |-> <<"@", "x">>, err |-> "nil"]

(***************************************************************************)
(* C6                                                                      *)
(***************************************************************************)
\* C6: when the first call is a pass whose source gives a string flag a value that
\* starts with '@', not with "@@", and names no path or a file that cannot be read,
\* the pass returns an error, the flag is not in `actual` and it does not hold the
\* raw string.
C6_ExpansionFailureIsError ==
  \A op \in PassOps : \A name \in StringFlags :
    (FirstCall(op) /\ HasRaw(op, name)
       /\ expandAtFile(Raw(op, name)).err \notin {"nil", "errNoAtExpansion"})
      => /\ err # NoErr
         /\ name \notin fs.actual
         /\ fs.value[name] # Raw(op, name)

(***************************************************************************)
(* C7                                                                      *)
(***************************************************************************)
\* data without one trailing "\r\n" or one trailing "\n"
TrimOneTerminator(data) ==
  IF Len(data) >= 2 /\ data[Len(data) - 1] = "\r" /\ data[Len(data)] = "\n"
    THEN Upto(data, Len(data) - 2)
  ELSE IF Len(data) >= 1 /\ data[Len(data)] = "\n"
    THEN Upto(data, Len(data) - 1)
  ELSE data

\* C7: the expansion of "@path" is the content of the file without one trailing
\* terminator, and ParseSecretDir sets a string flag to the content of its secret
\* file without one trailing terminator (the content ending in "\n" and holding no
\* '@').
C7_OneTerminator ==
  /\ (expOut.err = "nil" /\ ~HasPrefix(expIn, <<"@", "@">>)) =>
       expOut.s = TrimOneTerminator(Files[Tail(expIn)])
  /\ (FirstCall("ParseSecretDir") /\ err = NoErr /\ Len(expIn) > 0 /\ expIn[Len(expIn)] = "\n"
        /\ \A i \in 1..Len(expIn) : expIn[i] # "@") =>
       fs.value[NameU] = TrimOneTerminator(expIn)

(***************************************************************************)
(* C8                                                                      *)
(***************************************************************************)
\* a step that is one more invocation of ParseSecretDir or ParseFile, by the caller
\* or by the watcher
LowerPassStep ==
  \/ calls' = calls + 1 /\ lastOp'.op \in {"ParseSecretDir", "ParseFile"}
  \/ pending' # pending /\ lastOp'.op = "Reload"

\* C8: an invocation of ParseSecretDir or ParseFile, whatever the directory and the
\* file hold by then, leaves every flag set by the command line or by FlagSet.Set
\* with the value it had.
C8_CliPinned ==
  [][LowerPassStep =>
       \A name \in fs.actual :
         fs.source[name] \in {"cli", "set"} =>
           fs'.value[name] = fs.value[name] /\ fs'.source[name] = fs.source[name]]_vars

\* u was set to "c" by the command line, the secret file of u was then written with
\* "t", and ParseSecretDir has run over it
C8_Witness ==
  /\ lastOp.op = "ParseSecretDir"
  /\ writes = 1
  /\ NameU \in DOMAIN secretDir /\ secretDir[NameU].data = <<"t", "\n">>
  /\ NameU \in fs.actual /\ fs.source[NameU] = "cli" /\ fs.value[NameU] = <<"c">>

(***************************************************************************)
(* C9                                                                      *)
(***************************************************************************)
\* the watcher handles a notification about `kind`
ReloadStep(kind) == pending' # pending /\ lastOp' = [op |-> "Reload", passes |-> <<kind>>]

\* the string the changed source now gives for name
Reloaded(kind, name) ==
  LET op == IF kind = "secret" THEN "ParseSecretDir" ELSE "ParseFile"
      x == expandAtFile(Raw(op, name))
  IN IF x.err = "nil" THEN x.s ELSE Raw(op, name)

\* C9: when the watcher re-invokes the pass of a changed source without error, every
\* string flag whose value came from that source and for which the source now gives
\* another value holds the new value, and its OnChange callback is invoked with it.
C9_HotReload ==
  [][\A kind \in {"secret", "config"} :
       (ReloadStep(kind) /\ err' = NoErr) =>
         \A name \in StringFlags \cap fs.actual :
           (/\ fs.source[name] = kind
            /\ HasRaw(IF kind = "secret" THEN "ParseSecretDir" ELSE "ParseFile", name)
            /\ Reloaded(kind, name) # fs.value[name])
             => /\ fs'.value[name] = Reloaded(kind, name)
                /\ <<name, Reloaded(kind, name)>> \in fired']_vars

(***************************************************************************)
(* C10                                                                     *)
(***************************************************************************)
\* the flags the environment pass fails on after the CLI pass
EnvFailing ==
  {name \in DOMAIN fs.formal \ CliAlone.f.actual :
     ParseEnvFlag(CliAlone.f, environ, name).err # NoErr}

\* no flag was set by a pass after the failing one
NoneSetBy(srcs) == \A name \in DOMAIN fs.formal : fs.source[name] \notin srcs

\* the flags the CLI pass committed hold what it gave them
CliKept ==
  \A name \in CliAlone.f.actual :
    name \in fs.actual /\ fs.source[name] = "cli" /\ fs.value[name] = CliAlone.f.value[name]

UnknownEnv ==
  {key \in EnvKeys(environ) : \A name \in DOMAIN fs.formal : EnvKey(fs, name) # key}

\* the directives of the config file: its lines that are not blank and no comment
Directives ==
  LET lines == ScanLines(configFile.data)
  IN [i \in {k \in 1..Len(lines) : Len(lines[k]) > 0 /\ lines[k][1] # "#"} |-> lines[i]]

\* the key of a directive: the line up to its first '=' or ' '
KeyOf(line) ==
  IF IndexAny(line, {"=", " "}) >= 0 THEN Upto(line, IndexAny(line, {"=", " "})) ELSE line

UnknownLines == {i \in DOMAIN Directives : KeyOf(Directives[i]) \notin DOMAIN fs.formal}

FirstUnknownKey ==
  KeyOf(Directives[CHOOSE i \in UnknownLines : \A j \in UnknownLines : i <= j])

\* the error the claim gives for an unknown name
UnknownError(kind, name) ==
  IF name \in {NameHelp, NameH} THEN ErrHelp ELSE Error(kind, name, <<>>)

\* C11 as claimed: ParseEnv returns an error when the environment holds a variable
\* that corresponds to no declared flag, and ParseFile returns the unknown-name
\* error, or ErrHelp for `help` and `h`, when the file holds a key that is no
\* declared flag.
C11_UnknownNames ==
  /\ (FirstCall("ParseEnv") /\ UnknownEnv # {}) => err # NoErr
  /\ (FirstCall("ParseFile") /\ configFile.exists /\ UnknownLines # {}) =>
       \/ err # NoErr /\ err.name \in DOMAIN fs.formal
       \/ err = UnknownError("configuration variable provided but not defined", FirstUnknownKey)

\* C11: ParseEnv looks up only the variables of the declared flags: it never
\* returns ErrHelp, and an error it returns is about a declared flag whose variable
\* is set.  ParseFile returns an error when the file holds a key that is no declared
\* flag: ErrHelp when the first such key is `help` or `h`, the unknown-name error
\* otherwise, unless an earlier directive of a declared flag failed.
C11_UnknownNamesAmended ==
  /\ FirstCall("ParseEnv") =>
       /\ err # ErrHelp
       /\ err # NoErr => err.name \in DOMAIN fs.formal /\ HasRaw("ParseEnv", err.name)
       /\ (\A name \in DOMAIN fs.formal : EnvAlone(name).err = NoErr) => err = NoErr
  /\ (FirstCall("ParseFile") /\ configFile.exists /\ UnknownLines # {}) =>
       \/ err # NoErr /\ err.name \in DOMAIN fs.formal
       \/ err = UnknownError("configuration variable provided but not defined", FirstUnknownKey)

\* ParseFile has applied `b=0` and returned ErrHelp for the line `help`
C11_Witness ==
  /\ FirstCall("ParseFile")
  /\ configFile = Present(KV(NameB, "=", <<"0", "\n">>) \o NameHelp \o <<"\n">>)
  /\ err = ErrHelp
  /\ NameB \in fs.actual /\ fs.value[NameB] = FALSE

(***************************************************************************)
(* C12                                                                     *)
(***************************************************************************)
BoolFlags == {name \in DOMAIN fs.formal : fs.formal[name].Kind = "bool"}

True == ValueSet("bool", <<"t","r","u","e">>).v

\* name was set to true by the last call
SetTrue(name) == name \in fs.actual /\ fs.value[name] = True

\* the explicit value v went through the boolean parser: name holds what it parsed
\* to, or the call failed on name and name is not set
BoolParsed(name, v) ==
  IF ValueSet("bool", v).err = "nil"
    THEN name \in fs.actual /\ fs.value[name] = ValueSet("bool", v).v
    ELSE err # NoErr /\ err.name = name /\ name \notin fs.actual

\* the last call stopped at another flag
FailedOn(name) == err # NoErr /\ err.name # name

\* a token that is no flag: parseOne stops at it
NonFlag(s) == Len(s) < 2 \/ s[1] # "-"

FirstDirective == Directives[CHOOSE i \in DOMAIN Directives : \A j \in DOMAIN Directives : i <= j]

NoAt(v) == ~HasPrefix(v, <<"@">>)

\* the command line: `-b` first sets b and leaves the next token; `-b=v` is parsed
C12_Cli(b) ==
  FirstCall("Parse") /\ Len(osArgs) > 0 =>
    /\ osArgs[1] = Opt(b) => SetTrue(b) /\ fs.source[b] = "cli"
    /\ (osArgs[1] = Opt(b) /\ Len(osArgs) > 1 /\ NonFlag(osArgs[2])) => fs.args = Tail(osArgs)
    /\ HasPrefix(osArgs[1], OptEq(b, <<>>)) => BoolParsed(b, From(osArgs[1], Len(b) + 2))

\* the config file: a first directive `b` sets b, `b=v` and `b v` are parsed
C12_Config(b) ==
  (FirstCall("ParseFile") /\ configFile.exists /\ DOMAIN Directives # {}
     /\ KeyOf(FirstDirective) = b) =>
    IF FirstDirective = b THEN SetTrue(b)
    ELSE NoAt(From(FirstDirective, Len(b) + 1)) => BoolParsed(b, From(FirstDirective, Len(b) + 1))

\* the environment: `B=` sets b, `B=v` is parsed
C12_Env(b) ==
  (FirstCall("ParseEnv") /\ HasRaw("ParseEnv", b)) =>
    IF Raw("ParseEnv", b) = <<>> THEN SetTrue(b) \/ FailedOn(b)
    ELSE NoAt(Raw("ParseEnv", b)) => BoolParsed(b, Raw("ParseEnv", b)) \/ FailedOn(b)

\* C12 as claimed: a boolean flag with no explicit value becomes true without
\* consuming another token (`-b` on the command line, a bare key in the config
\* file, an empty environment value, an empty secret file), and every explicit
\* value is parsed by the boolean parser, an invalid one being an error.
C12_BoolNoValue ==
  \A b \in BoolFlags :
    /\ C12_Cli(b)
    /\ C12_Config(b)
    /\ C12_Env(b)
    /\ (FirstCall("ParseSecretDir") /\ HasRaw("ParseSecretDir", b)) =>
         IF Raw("ParseSecretDir", b) = <<>> THEN SetTrue(b) \/ FailedOn(b)
         ELSE NoAt(Raw("ParseSecretDir", b)) =>
                BoolParsed(b, Raw("ParseSecretDir", b)) \/ FailedOn(b)

\* C12: as claimed for the command line, the config file and the environment; in the
\* secret directory an empty file and a file whose content is `true` in any letter
\* case set the boolean to true, and every other content is parsed by the boolean
\* parser, an invalid one being an error.
C12_BoolNoValueAmended ==
  \A b \in BoolFlags :
    /\ C12_Cli(b)
    /\ C12_Config(b)
    /\ C12_Env(b)
    /\ (FirstCall("ParseSecretDir") /\ HasRaw("ParseSecretDir", b)) =>
         IF Raw("ParseSecretDir", b) = <<>> \/ EqualFold(Raw("ParseSecretDir", b), <<"t","r","u","e">>)
           THEN SetTrue(b) \/ FailedOn(b)
         ELSE NoAt(Raw("ParseSecretDir", b)) =>
                BoolParsed(b, Raw("ParseSecretDir", b)) \/ FailedOn(b)

\* `-b true -u c`: b is true, `true` was not consumed and ended the scan before -u
C12_Witness ==
  /\ FirstCall("Parse")
  /\ osArgs = <<Opt(NameB), <<"t","r","u","e">>, Opt(NameU), <<"c">>>>
  /\ SetTrue(NameB)
  /\ fs.args = Tail(osArgs)
  /\ fs.source[NameU] # "cli"

(***************************************************************************)
(* C13                                                                     *)
(***************************************************************************)
Terminator == <<"-", "-">>

\* the flag a token `-name` or `-name=value` names (the token up to its first '=')
TokenName(s) ==
  IF IndexAny(s, {"="}) >= 0 THEN From(Upto(s, IndexAny(s, {"="})), 1) ELSE From(s, 1)

\* a token that sets a boolean flag by itself: `-b`, or `-b=v` with v a boolean
BoolToken(s) ==
  /\ Len(s) >= 2 /\ s[1] = "-" /\ s[2] # "-"
  /\ TokenName(s) \in BoolFlags
  /\ IndexAny(s, {"="}) >= 0 => ValueSet("bool", From(s, IndexAny(s, {"="}) + 1)).err = "nil"

\* the positions of a standalone `--` that the scan reaches: only boolean tokens
\* come before it
Terminated ==
  {k \in 1..Len(osArgs) : osArgs[k] = Terminator /\ \A i \in 1..(k - 1) : BoolToken(osArgs[i])}

\* C13: a standalone `--` ends the scan of the command line: the tokens after it are
\* the positional arguments, verbatim and in order, and no flag is set from the
\* command line other than by the tokens before the `--`.
C13_Terminator ==
  FirstCall("Parse") =>
    \A k \in Terminated :
      /\ fs.args = From(osArgs, k)
      /\ \A name \in DOMAIN fs.formal :
           fs.source[name] = "cli" => \E i \in 1..(k - 1) : TokenName(osArgs[i]) = name

\* `-b=0 -- -- -u=c`: the second `--` and `-u=c` are positional, u is not set by it
C13_Witness ==
  /\ FirstCall("Parse")
  /\ osArgs = <<OptEq(NameB, <<"0">>), Terminator, Terminator, OptEq(NameU, <<"c">>)>>
  /\ fs.args = <<Terminator, OptEq(NameU, <<"c">>)>>
  /\ fs.source[NameB] = "cli" /\ fs.value[NameB] = FALSE
  /\ fs.source[NameU] # "cli"

(***************************************************************************)
(* C14                                                                     *)
(***************************************************************************)
\* the directives that are the first of their key, the key being a declared flag
FirstOfKey ==
  {i \in DOMAIN Directives :
     /\ KeyOf(Directives[i]) \in DOMAIN fs.formal
     /\ \A j \in DOMAIN Directives : j < i => KeyOf(Directives[j]) # KeyOf(Directives[i])}

\* the value of the directive `key value` or `key=value`: what follows the separator
ValueOf(line) == From(line, Len(KeyOf(line)) + 1)

TooLong == Error("bufio.Scanner: token too long", <<>>, <<>>)

\* the directive was applied: a bare boolean key is true, a key with a value holds
\* exactly that value, converted to the type of the flag
Applied(line) ==
  IF line = KeyOf(line) THEN KeyOf(line) \in BoolFlags => SetTrue(KeyOf(line))
  ELSE NoAt(ValueOf(line)) =>
         /\ KeyOf(line) \in fs.actual
         /\ fs.source[KeyOf(line)] = "config"
         /\ fs.value[KeyOf(line)] = ValueSet(fs.formal[KeyOf(line)].Kind, ValueOf(line)).v
         /\ KeyOf(line) \in StringFlags => fs.value[KeyOf(line)] = ValueOf(line)

\* C14: ParseFile reads one directive per line, `key value`, `key=value` or `key`:
\* a file of blank and `#` lines only changes nothing; when every line is accepted,
\* each flag holds exactly the value of its first directive and a bare boolean key
\* is true; a line longer than the buffer of the scanner makes ParseFile return an
\* error, after the lines before it were applied.
C14_Directives ==
  (FirstCall("ParseFile") /\ configFile.exists) =>
    /\ (DOMAIN Directives = {} /\ configFile.repeat = 0) => fs = Fresh /\ err = NoErr
    /\ err \in {NoErr, TooLong} => \A i \in FirstOfKey : Applied(Directives[i])
    /\ configFile.repeat >= MaxScanTokenSize => err # NoErr
    /\ err = TooLong => configFile.repeat >= MaxScanTokenSize

\* `u f` and then a line of 70000 letters: u is "f" and ParseFile returned the
\* error of the scanner
C14_Witness ==
  /\ FirstCall("ParseFile")
  /\ configFile = Long(KV(NameU, " ", <<"f", "\n">>), BigLine)
  /\ err = TooLong
  /\ fs.value[NameU] = <<"f">> /\ fs.source[NameU] = "config"

\* `u=k v`, `n 4`, `b`: u is "k v", n is 4, b is true
C14_WitnessValues ==
  /\ FirstCall("ParseFile")
  /\ err = NoErr
  /\ fs.value[NameU] = <<"k", " ", "v">> /\ fs.value[NameN] = 4 /\ fs.value[NameB] = TRUE
  /\ {NameU, NameN, NameB} \subseteq fs.actual

(***************************************************************************)
(* C15                                                                     *)
(***************************************************************************)
\* C15: declaring a name that is already declared panics at the declaration, by
\* Var directly or by the registration of a struct field, and formal[name] is
\* still the Flag declared first; nothing else of the registry changed either.
C15_UniqueNames ==
  /\ (lastOp.op = "Var" /\ lastOp.name \in DOMAIN lastOp.before.formal) =>
       /\ outcome = "panic"
       /\ fs.formal[lastOp.name] = lastOp.before.formal[lastOp.name]
       /\ fs = lastOp.before
  /\ (lastOp.op = "Var" /\ lastOp.name \notin DOMAIN lastOp.before.formal) =>
       /\ outcome = "returned"
       /\ DOMAIN fs.formal = DOMAIN lastOp.before.formal \cup {lastOp.name}
       /\ \A name \in DOMAIN lastOp.before.formal : fs.formal[name] = lastOp.before.formal[name]
  /\ (lastOp.op = "ParseStruct" /\ outcome = "panic" /\ err.kind = "flag redefined") =>
       \A name \in DOMAIN lastOp.before.formal : fs.formal[name] = lastOp.before.formal[name]

\* u was declared with default "d" and declared again with default "e": panic, and
\* u still has default "d"
C15_Witness ==
  /\ lastOp.op = "Var" /\ lastOp.name = NameU
  /\ outcome = "panic"
  /\ NameU \in DOMAIN lastOp.before.formal
  /\ fs.formal[NameU] = Flag("string", <<"d">>)
  /\ err = Error("flag redefined", NameU, <<>>)

(***************************************************************************)
(* C16                                                                     *)
(***************************************************************************)
\* the case of the argument and the state in which ParseStruct was called
GuardCase ==
  IF lastOp.s.Kind # "Ptr" THEN "non-pointer"
  ELSE IF lastOp.s.IsNil THEN "nil pointer"
  ELSE IF lastOp.before.parsed /\ lastOp.auto THEN "already parsed"
  ELSE IF lastOp.s.Elem # "Struct" THEN "pointer to non-struct"
  ELSE "none"

\* the case an error tells: by its message, and by the %T it ends with, which starts
\* with '*' for a pointer
CaseOf(e) ==
  IF e.kind = "ParseStruct expects a non-nil pointer to a struct, got %T"
    THEN (IF HasPrefix(e.value, <<"*">>) THEN "nil pointer" ELSE "non-pointer")
  ELSE IF e.kind = "ParseStruct must be called before flag.Parse()" THEN "already parsed"
  ELSE IF e.kind = "ParseStruct expects a pointer to a struct, got %T"
    THEN "pointer to non-struct"
  ELSE "none"

\* C16: ParseStruct called with a non-pointer, a nil pointer or a pointer to a
\* non-struct, or with auto-resolve after the registry was parsed, returns an error
\* that tells which of the four cases it is, the last one by the 'must be called
\* before' message; no flag is registered, no pass runs and the registry is as it
\* was.
C16_Guards ==
  lastOp.op = "ParseStruct" =>
    /\ CaseOf(err) = GuardCase
    /\ GuardCase # "none" =>
         /\ err # NoErr
         /\ outcome = "returned"
         /\ fs = lastOp.before
         /\ lastOp.passes = <<>> /\ lastOp.ran = <<>>

\* ParseStruct(&T{...}) after flag.Parse(): the 'must be called before' error
C16_Witness ==
  /\ lastOp.op = "ParseStruct"
  /\ lastOp.before.parsed /\ lastOp.auto
  /\ lastOp.s = PtrTo(StructRequired)
  /\ err = Error("ParseStruct must be called before flag.Parse()", <<>>, <<>>)
  /\ fs = lastOp.before /\ NameU \notin DOMAIN fs.formal

\* the three errors for a bad argument, each seen
C16_WitnessNil ==
  /\ lastOp.op = "ParseStruct" /\ lastOp.s = NilPtr /\ CaseOf(err) = "nil pointer"

(***************************************************************************)
(* C17                                                                     *)
(***************************************************************************)
\* the flag names of the required fields of a struct, nested structs included, in
\* the order of declaration
RECURSIVE RequiredOf(_)
RequiredOf(fields) ==
  IF Len(fields) = 0 THEN <<>>
  ELSE (IF ~Head(fields).exported THEN <<>>
        ELSE IF IsNested(Head(fields)) THEN RequiredOf(Head(fields).fields)
        ELSE IF Head(fields).flag # <<>> /\ Head(fields).required THEN <<Head(fields).flag>>
        ELSE <<>>)
       \o RequiredOf(Tail(fields))

\* some source supplies name: the command line, the environment, the secret
\* directory or the config file
Supplied(name) ==
  /\ name \in DOMAIN fs.formal
  /\ \/ name \in CliAlone.f.actual
     \/ name \in EnvAlone(name).f.actual
     \/ PathOf(DefaultSecretDirFlagname) # <<>> /\ name \in SecretAlone.f.actual
     \/ PathOf(DefaultConfigFlagname) # <<>> /\ name \in ConfigAlone.f.actual

Unsupplied == SelectSeq(RequiredOf(lastOp.s.fields), LAMBDA name : ~Supplied(name))

\* ParseStruct(s) was called on a struct, before any Parse, and returned nil or the
\* missing-required error
AccountedCall ==
  /\ lastOp.op = "ParseStruct" /\ lastOp.auto /\ GuardCase = "none"
  /\ outcome = "returned"
  /\ err.kind \in {"nil", "missing required flags"}

\* C17: ParseStruct returns nil when every required field is supplied by some
\* source (CLI, environment, secret directory or config file) and otherwise the
\* 'missing required flags' error that lists exactly the unsupplied flag names,
\* joined by ", " in the order of declaration; a default on a required field does
\* not supply it.
C17_RequiredAccounting ==
  (AccountedCall /\ SourcesParse) =>
    err = IF Unsupplied = <<>> THEN NoErr
          ELSE Error("missing required flags", <<>>, Join(Unsupplied, <<",", " ">>))

\* the same for the structs without nested struct, with the secret directory left
\* out of the sources: it holds, so the failures of C17 are the two described
C17_AccountingOfParse ==
  (AccountedCall /\ SourcesParse /\ \A i \in 1..Len(lastOp.s.fields) : ~IsNested(lastOp.s.fields[i])) =>
    err = MissingRequired(fs, RequiredOf(lastOp.s.fields))

(***************************************************************************)
(* C18                                                                     *)
(***************************************************************************)
\* the fields of the struct handed to the last ParseStruct
Fields == lastOp.s.fields

\* field i is registered by its handler and its default tag does not parse
BadDefault(i) ==
  /\ Fields[i].exported /\ Fields[i].flag # <<>>
  /\ DefaultOf(Fields[i]).err \in {"invalid default bool", "invalid default int"}

\* the registration of the fields before field i went through
Reached(i) ==
  /\ StructBody(lastOp.before, SubSeq(Fields, 1, i - 1)).err = NoErr
  /\ StructBody(lastOp.before, SubSeq(Fields, 1, i - 1)).outcome = "returned"

\* the flag names of the fields i..j that a handler registers
FlagsOf(i, j) == {Fields[k].flag : k \in {x \in i..j : Fields[x].exported /\ Fields[x].flag # <<>>}}

\* C18: when the default tag of a field does not parse for the type of the field,
\* ParseStruct returns at that field an error that names the field and the raw
\* default: the fields before it are registered, the field and the fields after it
\* are not, no pass and no validation runs (Parsed() stays as it was), and the
\* error is this one, not the missing-required error.
C18_MalformedDefault ==
  (lastOp.op = "ParseStruct" /\ GuardCase = "none") =>
    \A i \in 1..Len(Fields) :
      (BadDefault(i) /\ Reached(i)) =>
        /\ err = Error(DefaultOf(Fields[i]).err, Fields[i].Name, Fields[i].def)
        /\ outcome = "returned"
        /\ DOMAIN fs.formal = DOMAIN lastOp.before.formal \cup FlagsOf(1, i - 1)
        /\ FlagsOf(i, Len(Fields)) \cap DOMAIN fs.formal \subseteq
             DOMAIN lastOp.before.formal \cup FlagsOf(1, i - 1)
        /\ fs.parsed = lastOp.before.parsed /\ fs.actual = lastOp.before.actual
        /\ lastOp.passes = <<>> /\ lastOp.ran = <<>>

\* {U required; B bool default "notabool"; N required}: the error is about B, u is
\* registered, b and n are not, nothing was parsed
C18_Witness ==
  /\ lastOp.op = "ParseStruct" /\ lastOp.auto
  /\ lastOp.s = PtrTo(StructBadDefault)
  /\ err = Error("invalid default bool", <<"B">>, <<"n","o","t","a","b","o","o","l">>)
  /\ NameU \in DOMAIN fs.formal
  /\ NameB \notin DOMAIN fs.formal /\ NameN \notin DOMAIN fs.formal
  /\ ~fs.parsed

(***************************************************************************)
(* C19                                                                     *)
(***************************************************************************)
\* ParseStruct(s) registered the struct, ran Parse and returned
ResolvedCall ==
  /\ lastOp.op = "ParseStruct" /\ lastOp.auto /\ GuardCase = "none"
  /\ outcome = "returned"
  /\ lastOp.passes # <<>>

\* the failures of the deferred validations on the values after resolution
Violations ==
  UNION {{Validation(fs, fs.deferredValidations[i])[k] :
            k \in 1..Len(Validation(fs, fs.deferredValidations[i]))} :
         i \in 1..Len(fs.deferredValidations)}

\* the failures an error exposes: itself, and for a MultiError its errors and theirs
Exposed(e) ==
  IF e.kind = "MultiError"
    THEN {e.value[i] : i \in 1..Len(e.value)} \cup
         UNION {{e.value[i][k] : k \in 1..Len(e.value[i])} : i \in 1..Len(e.value)}
    ELSE {e}

\* C19: when after resolution there are both min/max/pattern violations and missing
\* required flags, the one error ParseStruct returns exposes every violation and
\* the missing-required failure.
C19_FullyAggregated ==
  (ResolvedCall /\ Violations # {} /\ MissingRequired(fs, RequiredOf(Fields)) # NoErr) =>
    /\ Violations \subseteq Exposed(err)
    /\ MissingRequired(fs, RequiredOf(Fields)) \in Exposed(err)

(***************************************************************************)
(* C20                                                                     *)
(***************************************************************************)
\* the flag names of the fields with a min, max or pattern tag, nested structs
\* included, in the order of declaration
RECURSIVE ValidatedOf(_)
ValidatedOf(fields) ==
  IF Len(fields) = 0 THEN <<>>
  ELSE (IF ~Head(fields).exported THEN <<>>
        ELSE IF IsNested(Head(fields)) THEN ValidatedOf(Head(fields).fields)
        ELSE IF Head(fields).flag # <<>>
                  /\ (Head(fields).min # <<>> \/ Head(fields).max # <<>>
                        \/ Head(fields).pattern # <<>>)
          THEN <<Head(fields).flag>>
        ELSE <<>>)
       \o ValidatedOf(Tail(fields))

\* the validations in the queue when the call resolved: those left by earlier
\* registrations, then those of this struct
Enqueued ==
  [i \in 1..Len(lastOp.before.deferredValidations) |-> lastOp.before.deferredValidations[i].name]
    \o ValidatedOf(Fields)

\* the entries of the queue that fail on the final values, in the order of the queue
Failing == SelectSeq(fs.deferredValidations, LAMBDA d : Validation(fs, d) # <<>>)

\* C20: a ParseStruct call that registers its struct and resolves evaluates every
\* enqueued validation, those of nested structs included, exactly once, in the
\* order of registration, after the passes, each on the final value of its flag; a
\* failing one does not stop the later ones, and when some fail the error is one
\* MultiError that holds the failures of each failing validation, in that order.
C20_DeferredValidations ==
  ResolvedCall =>
    /\ [i \in 1..Len(lastOp.ran) |-> lastOp.ran[i].name] = Enqueued
    /\ \A i \in 1..Len(lastOp.ran) : lastOp.ran[i].value = fs.value[lastOp.ran[i].name]
    /\ IF Failing = <<>> THEN err.kind # "MultiError"
       ELSE err = Error("MultiError", <<>>, [i \in 1..Len(Failing) |-> Validation(fs, Failing[i])])

\* {Inner {N min 6}; U pattern k} with N=7 in the environment and no argument: both
\* validations ran, the nested one first and on 7, and the error holds the failure
\* of the u check only
C20_Witness ==
  /\ ResolvedCall
  /\ lastOp.s = PtrTo(StructNested)
  /\ lastOp.ran = <<[name |-> NameN, value |-> 7], [name |-> NameU, value |-> <<>>]>>
  /\ err = Error("MultiError", <<>>, <<<<Failure("does not match pattern", NameU, <<"k">>)>>>>)

\* {N min 6 max 3; U pattern z min 2; B required} with no source: three failures in
\* two entries, and b is missing
C20_WitnessTwo ==
  /\ ResolvedCall
  /\ lastOp.s = PtrTo(StructViolated)
  /\ Len(err.value) = 2 /\ Len(err.value[2]) = 2
  /\ NameB \notin fs.actual

(***************************************************************************)
(* C21                                                                     *)
(***************************************************************************)
Sources == {"cli", "env", "secret", "config"}

\* the source the first call gives a flag it set, read off the inputs
SourceOf(op, name) ==
  IF op = "ParseEnv" THEN "env"
  ELSE IF op = "ParseSecretDir" THEN "secret"
  ELSE IF op = "ParseFile" THEN "config"
  ELSE IF name \in CliAlone.f.actual THEN "cli"
  ELSE IF HasRaw("ParseEnv", name) THEN "env"
  ELSE "config"

Reported(name) == lastOp.metas[name]

C21_WitnessFiles ==
  /\ lastOp.op = "Introspect" /\ calls = 2
  /\ NameU \in fs.sensitive
  /\ Reported(NameU).Source = "secret" /\ Reported(NameU).Default = Mask
  /\ Reported(NameN).Source = "config" /\ Reported(NameN).Value = <<"3">>

(***************************************************************************)
(* C22                                                                     *)
(***************************************************************************)
\* the first call failed on a value given for `name`, a flag marked sensitive
Rejected(name) ==
  /\ calls = 1 /\ lastOp.op \in PassOps
  /\ name \in fs.sensitive
  /\ err.kind = "invalid value" /\ err.name = name

\* C22: the error of a pass that rejects the value supplied for a sensitive flag does
\* not hold that value: the mask stands in its place, so that two runs that differ
\* only in that value end with the same error.
C22_NoLeak == \A name \in DOMAIN fs.formal : Rejected(name) => err.value = Mask

(***************************************************************************)
(* C23                                                                     *)
(***************************************************************************)
\* the CLI loop over the arguments of WithArgs against the flags registered before
CliBefore ==
  ParseArgs([NewFlagSet(lastOp.before.formal, "ContinueOnError")
               EXCEPT !.parsed = TRUE, !.args = lastOp.arguments])

\* C23: WithArgs invokes fn exactly when its parse returned no error, and a flag
\* registered before the call that the arguments set is declared and holds the value
\* of the arguments when fn runs.
C23_WithArgs ==
  (calls = 1 /\ lastOp.op = "WithArgs") =>
    /\ lastOp.fn = (err = NoErr)
    /\ CliBefore.err = NoErr =>
         \A name \in CliBefore.f.actual :
           /\ lastOp.fn
           /\ name \in DOMAIN fs.formal
           /\ fs.value[name] = CliBefore.f.value[name]

(***************************************************************************)
(* C24                                                                     *)
(***************************************************************************)
RegularFiles == {file \in DOMAIN secretDir : ~secretDir[file].isDir}

\* the flag a file name stands for, <<>> when it stands for none
TargetOf(file) ==
  IF ToLower(file) \in DOMAIN fs.formal THEN ToLower(file)
  ELSE IF ReplaceAll(ToLower(file), "_", "-") \in DOMAIN fs.formal
    THEN ReplaceAll(ToLower(file), "_", "-")
  ELSE <<>>

FilesOf(name) == {file \in RegularFiles : TargetOf(file) = name}

\* the first file of the directory listing that stands for name
FirstFileOf(name) ==
  CHOOSE file \in FilesOf(name) : \A other \in FilesOf(name) \ {file} : StrLess(file, other)

\* what the file alone gives its flag
FileAlone(file) == ParseSecretEntry(Fresh, secretDir, file)

\* C24: a first ParseSecretDir that returns nil has set exactly the flags that some
\* regular file stands for, by its lower-cased name if that is declared and else by
\* its lower-cased name with `_` replaced by `-`, each from the first such file of the
\* listing only; files that stand for no flag and subdirectories change nothing and
\* raise no error: an error names a flag that a regular file stands for.
C24_SecretNames ==
  FirstCall("ParseSecretDir") =>
    /\ err = NoErr =>
          /\ fs.actual = {TargetOf(file) : file \in RegularFiles} \ {<<>>}
          /\ \A name \in fs.actual :
                fs.value[name] = FileAlone(FirstFileOf(name)).f.value[name]
          /\ \A name \in DOMAIN fs.formal \ fs.actual :
                fs.value[name] = fs.formal[name].Default
    /\ err # NoErr => FilesOf(err.name) # {} /\ err.name # <<>>

\* D_P stands for d_p and d-p for d-p when both are declared
C24_Witness ==
  /\ FirstCall("ParseSecretDir") /\ err = NoErr
  /\ NameD_P \in fs.actual /\ fs.value[NameD_P] = <<"p">>
  /\ fs.value[NameDP] = <<"q">>

\* D_P stands for d-p when d_p is not declared, and the file d-p is then skipped
C24_WitnessOneFile ==
  /\ FirstCall("ParseSecretDir") /\ err = NoErr
  /\ NameD_P \notin DOMAIN fs.formal
  /\ FilesOf(NameDP) = {<<"D", "_", "P">>, NameDP} /\ fs.value[NameDP] = <<"p">>
  /\ \E file \in DOMAIN secretDir : secretDir[file].isDir

\* a file that stands for no flag beside one that does
C24_WitnessSkipped ==
  /\ FirstCall("ParseSecretDir") /\ err = NoErr
  /\ \E file \in RegularFiles : TargetOf(file) = <<>>
  /\ fs.actual = {NameU}

(***************************************************************************)
(* C25                                                                     *)
(***************************************************************************)
\* the first call registered a struct: the guards passed
Registration == FirstCall("ParseStruct") /\ GuardCase = "none"

\* the command line or the environment supplies name
SuppliedToParse(name) ==
  /\ name \in DOMAIN fs.formal
  /\ name \in CliAlone.f.actual \/ name \in EnvAlone(name).f.actual

\* the call did not resolve and did not validate
Unresolved ==
  lastOp.passes = <<>> /\ lastOp.ran = <<>> /\ ~fs.parsed /\ err.kind # "MultiError"

\* C25: a registration with AutoParse false runs neither Parse nor the deferred
\* validations and reports no required flag missing; a ParseStruct whose required
\* fields, nested ones included, are all supplied by the command line or the
\* environment reports no required flag missing.
C25_RegistrationOnly ==
  /\ (Registration /\ ~lastOp.auto) =>
        Unresolved /\ err.kind # "missing required flags"
  /\ (Registration /\ lastOp.auto /\ SourcesParse
        /\ \A i \in 1..Len(RequiredOf(lastOp.s.fields)) :
              SuppliedToParse(RequiredOf(lastOp.s.fields)[i])) =>
        err.kind # "missing required flags"

\* the part of C25 that holds: no Parse and no validation with AutoParse false
C25_NoResolution == (Registration /\ ~lastOp.auto) => Unresolved

(***************************************************************************)
(* C26                                                                     *)
(***************************************************************************)
\* ParseStruct ran Parse under ContinueOnError and the CLI pass of that Parse failed:
\* an undefined flag or a value that does not parse
ResolutionFailed ==
  /\ Registration /\ lastOp.auto
  /\ fs.errorHandling = "ContinueOnError"
  /\ lastOp.passes = <<"cli">>
  /\ CliAlone.err # NoErr

\* C26: when the Parse run by ParseStruct returns an error under ContinueOnError,
\* ParseStruct returns an error that is not nil and not the missing-required error.
C26_ResolutionErrors ==
  ResolutionFailed => err.kind \notin {"nil", "missing required flags"}

(***************************************************************************)
(* C27                                                                     *)
(***************************************************************************)
\* prefixes are joined with dots
Dotted(prefix, name) == IF prefix = <<>> THEN name ELSE prefix \o <<".">> \o name

\* the flag names a struct stands for under a prefix: the prefix of a nested struct
\* applies to its fields only
RECURSIVE PrefixedNames(_, _)
PrefixedNames(fields, prefix) ==
  IF Len(fields) = 0 THEN {}
  ELSE (IF ~Head(fields).exported THEN {}
        ELSE IF IsNested(Head(fields))
          THEN PrefixedNames(Head(fields).fields,
                             IF Head(fields).flagPrefix = <<>> THEN prefix
                             ELSE Dotted(prefix, Head(fields).flagPrefix))
        ELSE IF Head(fields).flag # <<>> THEN {Dotted(prefix, Head(fields).flag)}
        ELSE {})
       \cup PrefixedNames(Tail(fields), prefix)

\* C27: a registration that returns nil has declared exactly the flags of the tagged
\* fields, each under the dotted prefixes of the nested structs around it: `o.i.n`
\* for n in Inner in Outer, `o.b` for b in Outer, `u` for the sibling after Outer.
C27_Prefixes ==
  (Registration /\ err = NoErr /\ outcome = "returned") =>
    DOMAIN fs.formal \ DOMAIN lastOp.before.formal = PrefixedNames(lastOp.s.fields, <<>>)

\* the part that holds: the structs without flagPrefix
C27_Unprefixed ==
  (Registration /\ err = NoErr /\ outcome = "returned" /\ lastOp.s.fields # StructPrefixed) =>
    DOMAIN fs.formal \ DOMAIN lastOp.before.formal = PrefixedNames(lastOp.s.fields, <<>>)

(***************************************************************************)
(* C28                                                                     *)
(***************************************************************************)
\* the first call, a pass or FlagSet.Set, ended on the Value.Set of name rejecting
\* the string it was given
FailedSet(name) ==
  /\ calls = 1 /\ writes = 0 /\ lastOp.op \in PassOps \cup {"Set"}
  /\ err.kind \in {"invalid value", "invalid boolean value", "secret file invalid"}
  /\ err.name = name

\* C28: when Value.Set rejects the string given for a flag, the flag is not in
\* `actual` and its variable holds what it held before, here its default.
C28_FailedSet ==
  \A name \in DOMAIN fs.formal :
    FailedSet(name) => name \notin fs.actual /\ fs.value[name] = fs.formal[name].Default

\* the part that holds: the flag is not recorded in `actual`
C28_NotRecorded == \A name \in DOMAIN fs.formal : FailedSet(name) => name \notin fs.actual

(***************************************************************************)
(* C29                                                                     *)
(***************************************************************************)
\* the strings the tokens of args give name, in order, args being made of the tokens
\* of boolean flags and of `-x v` and `-x=v`
RECURSIVE Occurrences(_, _)
Occurrences(args, name) ==
  IF Len(args) = 0 THEN <<>>
  ELSE IF BoolToken(Head(args)) THEN Occurrences(Tail(args), name)
  ELSE IF IndexAny(Head(args), {"="}) >= 0
    THEN (IF TokenName(Head(args)) = name
            THEN <<From(Head(args), IndexAny(Head(args), {"="}) + 1)>> ELSE <<>>)
         \o Occurrences(Tail(args), name)
  ELSE IF Len(args) >= 2
    THEN (IF TokenName(Head(args)) = name THEN <<args[2]>> ELSE <<>>)
         \o Occurrences(Tail(Tail(args)), name)
  ELSE <<>>

\* the CLI pass read every token as a flag or as the value of one
AllFlags ==
  /\ CliAlone.err = NoErr /\ CliAlone.f.args = <<>>
  /\ \A i \in 1..Len(osArgs) : osArgs[i] # Terminator

\* the directives of name in the config file, in order
LinesOf(name) == {i \in DOMAIN Directives : KeyOf(Directives[i]) = name}

\* the first directive of name gives a value that the flag accepts
FirstAccepted(name) ==
  \E i \in FirstOfKey :
    /\ KeyOf(Directives[i]) = name /\ Directives[i] # name
    /\ NoAt(ValueOf(Directives[i]))
    /\ ValueSet(fs.formal[name].Kind, ValueOf(Directives[i])).err = "nil"

\* C29: a flag named several times on the command line holds the value of its last
\* occurrence; of several lines of one key in the config file only the first is
\* applied, and a later line of that key raises no error even when its value would
\* be rejected.
C29_Repeated ==
  /\ (FirstCall("Parse") /\ AllFlags) =>
        \A name \in DOMAIN fs.formal \ BoolFlags :
          Occurrences(osArgs, name) # <<>> =>
            /\ name \in fs.actual /\ fs.source[name] = "cli"
            /\ fs.value[name] =
                 ValueSet(fs.formal[name].Kind,
                          Occurrences(osArgs, name)[Len(Occurrences(osArgs, name))]).v
  /\ (FirstCall("ParseFile") /\ configFile.exists /\ configFile.repeat = 0) =>
        /\ err = NoErr => \A i \in FirstOfKey : Applied(Directives[i])
        /\ \A name \in DOMAIN fs.formal : FirstAccepted(name) => err.name # name

\* -u a -u=b leaves u = "b"
C29_Witness ==
  /\ FirstCall("Parse") /\ AllFlags
  /\ Occurrences(osArgs, NameU) = << <<"a">>, <<"b">> >>
  /\ fs.value[NameU] = <<"b">>

\* `n 3`, `n=x`, `u f`, `u g`: n is 3, u is "f" and there is no error
C29_WitnessConfig ==
  /\ FirstCall("ParseFile") /\ err = NoErr
  /\ Cardinality(LinesOf(NameN)) = 2 /\ Cardinality(LinesOf(NameU)) = 2
  /\ ValueSet("int", ValueOf(Directives[2])).err # "nil"
  /\ fs.value[NameN] = 3 /\ fs.value[NameU] = <<"f">>

(***************************************************************************)
(* C30                                                                     *)
(***************************************************************************)
\* ParseEnv on the registry as declared, visiting the flags in the order `order`
EnvRun(order) == ParseEnvIn(Fresh, environ, order)

\* whether there is an error, and the result when there is none, are those of every
\* visiting order
SameOutcome(order) ==
  /\ (EnvRun(order).err = NoErr) = (err = NoErr)
  /\ err = NoErr => EnvRun(order).f.value = fs.value /\ EnvRun(order).f.actual = fs.actual

\* C30: a first ParseEnv returns an error in every visiting order of the flags or in
\* none; when it returns nil the values and `actual` are those of every order, and
\* when it returns an error the flags in `actual` are those of every order.
C30_EnvOrder ==
  FirstCall("ParseEnv") =>
    \A order \in EnvOrders(Fresh, environ) :
      /\ SameOutcome(order)
      /\ err # NoErr => EnvRun(order).f.actual = fs.actual

\* the part that holds: error or not, and the result without error
C30_Outcome ==
  FirstCall("ParseEnv") => \A order \in EnvOrders(Fresh, environ) : SameOutcome(order)

=============================================================================
